---- MODULE Spec2Model ----
(***************************************************************************)
(* Gennaro DKG (mikelodder7/gennaro-dkg): the participant state machine.   *)
(*                                                                         *)
(* Two interfaces of the repository are modelled:                          *)
(*   - the run()/receive() participant (participant.rs, participant/       *)
(*     round0.rs, round2.rs, round3.rs, data.rs): one participant facing   *)
(*     every payload a transport can hand to receive(); specification Spec *)
(*   - the explicit round1()..round5() participant (round1.rs, round2.rs,  *)
(*     round3.rs, participant/round4.rs, round5.rs) driven by a harness as *)
(*     in tests/happy_path.rs and lib.rs; specification SpecOld            *)
(*                                                                         *)
(* The group is the cyclic group of prime order FieldOrder written         *)
(* additively: a point is the scalar multiple of a base point, the         *)
(* identity is 0.  Hashes (merlin transcripts) are modelled as the tuple   *)
(* of what they absorbed, so two hashes are equal iff their inputs are.    *)
(***************************************************************************)
EXTENDS Integers, Sequences, FiniteSets, TLC

VARIABLES p, last, ps, net, olast

vars == <<p, last, ps, net, olast>>

(***************************************************************************)
(* Scalar field and group                                                  *)
(***************************************************************************)
FieldOrder == 13

Scalars == 0 .. (FieldOrder - 1)

ScalarAdd(a, b) == (a + b) % FieldOrder

ScalarSub(a, b) == (a + FieldOrder - b) % FieldOrder

ScalarMul(a, b) == (a * b) % FieldOrder

ScalarInvert(a) == CHOOSE x \in Scalars : (a * x) % FieldOrder = 1

identity == 0

PointAdd(g, h) == (g + h) % FieldOrder

PointMul(g, k) == (g * k) % FieldOrder

is_identity(g) == g = identity

\* Parameters::new: message_generator defaults to the group generator and
\* blinder_generator to hash_to_curve of its encoding, a different point.
message_generator == 1

blinder_generator == 2

threshold == 2

limit == 3

Ordinals == 0 .. (limit - 1)

\* the sequential id generator: start ONE, increment ONE
all_participant_ids == [o \in Ordinals |-> o + 1]

\* <G as SumOfProducts>::sum_of_products over zip(scalars, points): zip stops
\* at the shorter of the two
RECURSIVE sum_of_products(_, _)
sum_of_products(scalars, points) ==
    IF scalars = <<>> \/ points = <<>> THEN identity
    ELSE PointAdd(PointMul(Head(points), Head(scalars)),
                  sum_of_products(Tail(scalars), Tail(points)))

\* powers_of_i = [1, id, id^2, ...] (threshold entries)
RECURSIVE Power(_, _)
Power(x, k) == IF k = 0 THEN 1 ELSE ScalarMul(x, Power(x, k - 1))

powers_of_i(id) == [j \in 1 .. threshold |-> Power(id, j - 1)]

\* polynomial.iter().rfold(ZERO, |acc, c| acc * share_id + c): Horner
RECURSIVE EvalPoly(_, _)
EvalPoly(poly, x) ==
    IF poly = <<>> THEN 0
    ELSE ScalarAdd(Head(poly), ScalarMul(x, EvalPoly(Tail(poly), x)))

(***************************************************************************)
(* What a participant deals at construction (Participant::initialize).     *)
(* The coefficients are drawn from the RNG in the code; they are fixed     *)
(* here per ordinal and per persona so that no two dealt values coincide   *)
(* by accident (a coincidence has probability 1/|field| in the code).      *)
(***************************************************************************)
secret_polynomial(o) == <<(o + 1) % FieldOrder, (2 * (o + 1)) % FieldOrder>>

blinder_polynomial(o) == <<(o + 2) % FieldOrder, (2 * (o + 2)) % FieldOrder>>

\* a second dealing by the same ordinal (an equivocating peer)
alt_secret_polynomial(o) == <<(o + 5) % FieldOrder, (3 * (o + 1)) % FieldOrder>>

\* a refresh dealing: the secret is ZERO (RefreshParticipantImpl::secret)
refresh_secret_polynomial(o) == <<0, (2 * (o + 1)) % FieldOrder>>

feldman_verifier_set(poly) ==
    [j \in 1 .. Len(poly) |-> PointMul(message_generator, poly[j])]

pedersen_verifier_set(poly, bpoly) ==
    [j \in 1 .. Len(poly) |->
        PointAdd(PointMul(message_generator, poly[j]),
                 PointMul(blinder_generator, bpoly[j]))]

secret_shares(poly) == [o \in Ordinals |-> EvalPoly(poly, all_participant_ids[o])]

(***************************************************************************)
(* Commitment hashes and the protocol transcript                           *)
(***************************************************************************)
compute_pedersen_commitments_hash(participant_type, ordinal_index, id, t, commitments) ==
    <<"pedersen commitments", participant_type, ordinal_index, id, t, commitments>>

compute_feldman_commitments_hash(participant_type, ordinal_index, id, t, commitments) ==
    <<"feldman commitments", participant_type, ordinal_index, id, t, commitments>>

ZeroHash == <<"zero">>

check_feldman_verifier(participant_type, verifier) ==
    IF participant_type = "Secret" THEN ~is_identity(verifier)
    ELSE is_identity(verifier)

Round1Data_add_to_transcript(d, transcript) ==
    Append(transcript, <<"round1", d.sender_ordinal, d.sender_id, d.sender_type,
                         d.pedersen_commitment_hash, d.feldman_commitment_hash>>)

Round2Data_add_to_transcript(d, transcript) ==
    Append(transcript, <<"round2", d.sender_ordinal, d.sender_id, d.message_generator,
                         d.blinder_generator, d.pedersen_commitments>>)

Round3Data_add_to_transcript(d, transcript) ==
    Append(transcript, <<"round3", d.sender_ordinal, d.sender_id, d.feldman_commitments,
                         d.valid_participant_ids>>)

\* add_to_transcript of whichever payload type d is
add_to_transcript(d, transcript) ==
    IF "feldman_commitment_hash" \in DOMAIN d THEN Round1Data_add_to_transcript(d, transcript)
    ELSE IF "pedersen_commitments" \in DOMAIN d THEN Round2Data_add_to_transcript(d, transcript)
    ELSE Round3Data_add_to_transcript(d, transcript)

\* for d in map.values() { d.add_to_transcript(&mut transcript) }: a BTreeMap
\* iterates in key (ordinal) order
RECURSIVE FoldValues(_, _, _)
FoldValues(map, keys, transcript) ==
    IF keys = {} THEN transcript
    ELSE LET k == CHOOSE x \in keys : \A y \in keys : x <= y
         IN FoldValues(map, keys \ {k}, add_to_transcript(map[k], transcript))

\* a Vec::push in place of BTreeMap::insert: the entries are kept in the
\* order of their arrival
Insert_in_arrival_order(map, k, v) ==
    [x \in (DOMAIN map) \cup {Cardinality(DOMAIN map)} |->
        IF x = Cardinality(DOMAIN map) THEN v ELSE map[x]]

\* BTreeMap::insert
Insert(map, k, v) == [x \in (DOMAIN map) \cup {k} |-> IF x = k THEN v ELSE map[x]]

EmptyMap == [x \in {} |-> 0]

(***************************************************************************)
(* The run()/receive() participant                                         *)
(***************************************************************************)
\* DkgResult: Ok(..) or Err(Error::RoundError(round, msg)); a handler yields
\* the participant after the call, the result and the recipients of its output
NoError == [ok |-> TRUE, round |-> 0, msg |-> ""]

RoundError(k, m) == [ok |-> FALSE, round |-> k, msg |-> m]

InitializationError(m) == [ok |-> FALSE, round |-> 0, msg |-> m]

Ok(s, out) == [st |-> s, res |-> NoError, out |-> out]

Err(s, e) == [st |-> s, res |-> e, out |-> {}]

\* Participant::initialize for the participant at an ordinal
initialize(o) ==
    [ordinal |-> o,
     id |-> all_participant_ids[o],
     type |-> "Secret",
     round |-> 1,
     received_round1_data |-> EmptyMap,
     received_round2_data |-> EmptyMap,
     received_round3_data |-> EmptyMap,
     received_round4_data |-> EmptyMap,
     valid_participant_ids |-> EmptyMap,
     transcript |-> << <<"gennaro-dkg v1.0.0">> >>,
     secret_share |-> 0,
     public_key |-> identity]

own_pedersen_commitments(s) ==
    pedersen_verifier_set(secret_polynomial(s.ordinal), blinder_polynomial(s.ordinal))

own_feldman_commitments(s) == feldman_verifier_set(secret_polynomial(s.ordinal))

\* an output generator that does not filter out the sender's own ordinal
output_to_every_participant(s, participant_ids) == DOMAIN participant_ids

\* RoundOutputGenerator::iter: one message per participant id other than
\* the sender
OutputTo(s, participant_ids) == (DOMAIN participant_ids) \ {s.ordinal}

check_sending_participant_id(s, k, sender_index, sender_id) ==
    IF sender_index \notin DOMAIN all_participant_ids
    THEN RoundError(k, "Unknown sender index")
    ELSE IF sender_id = 0
    THEN RoundError(k, "Sender id is zero")
    ELSE IF s.id = sender_id
    THEN RoundError(k, "Sender id is equal to our id")
    ELSE NoError

\* Round 1: broadcast the hashes of the Pedersen and Feldman commitments
round1(s) ==
    LET d == [sender_ordinal |-> s.ordinal,
              sender_id |-> s.id,
              sender_type |-> s.type,
              pedersen_commitment_hash |->
                  compute_pedersen_commitments_hash(s.type, s.ordinal, s.id, threshold,
                                                    own_pedersen_commitments(s)),
              feldman_commitment_hash |->
                  compute_feldman_commitments_hash(s.type, s.ordinal, s.id, threshold,
                                                   own_feldman_commitments(s))]
    IN Ok([s EXCEPT !.round = 2,
                    !.received_round1_data = Insert(@, s.ordinal, d)],
          OutputTo(s, all_participant_ids))

\* receive_round1data without the test for an entry already stored
receive_round1data_no_duplicate_check(s, data) ==
    IF s.round > 2
    THEN Err(s, RoundError(1, "Invalid round payload received"))
    ELSE LET c == check_sending_participant_id(s, 1, data.sender_ordinal, data.sender_id)
    IN IF ~c.ok THEN Err(s, c)
    ELSE Ok([s EXCEPT !.received_round1_data = Insert(@, data.sender_ordinal, data)], {})

receive_round1data(s, data) ==
    IF s.round > 2
    THEN Err(s, RoundError(1, "Invalid round payload received"))
    ELSE IF data.sender_ordinal \in DOMAIN s.received_round1_data
    THEN Err(s, RoundError(1, "Sender has already sent data"))
    ELSE LET c == check_sending_participant_id(s, 1, data.sender_ordinal, data.sender_id)
    IN IF ~c.ok THEN Err(s, c)
    ELSE IF data.pedersen_commitment_hash = ZeroHash
    THEN Err(s, RoundError(1, "Pedersen commitment hash is zero"))
    ELSE IF data.feldman_commitment_hash = ZeroHash
    THEN Err(s, RoundError(1, "Feldman commitment hash is zero"))
    ELSE Ok([s EXCEPT !.received_round1_data = Insert(@, data.sender_ordinal, data)], {})

\* a readiness test that forgets to count the received round 1 payloads
round2_ready_ignores_count(s) == s.round = 2

round2_ready(s) ==
    s.round = 2 /\ Cardinality(DOMAIN s.received_round1_data) >= threshold

\* Round 2: reveal the Pedersen commitments, send each peer its shares
round2(s) ==
    IF ~round2_ready(s)
    THEN Err(s, RoundError(2, "round not ready, haven't received enough data from other participants"))
    ELSE
    LET d == [sender_ordinal |-> s.ordinal,
              sender_id |-> s.id,
              message_generator |-> message_generator,
              blinder_generator |-> blinder_generator,
              pedersen_commitments |-> own_pedersen_commitments(s),
              secret_share |-> secret_shares(secret_polynomial(s.ordinal))[s.ordinal],
              blind_share |-> secret_shares(blinder_polynomial(s.ordinal))[s.ordinal]]
    IN Ok([s EXCEPT !.transcript = FoldValues(s.received_round1_data,
                                              DOMAIN s.received_round1_data, @),
                    !.valid_participant_ids = Insert(@, s.ordinal, s.id),
                    !.round = 3,
                    !.received_round2_data = Insert(@, s.ordinal, d)],
          OutputTo(s, all_participant_ids))

\* receive_round2data without the test of the receiver's round
receive_round2data_no_gate(s, data) ==
    IF data.sender_ordinal \in DOMAIN s.received_round2_data
    THEN Err(s, RoundError(2, "Sender has already sent data"))
    ELSE LET c == check_sending_participant_id(s, 2, data.sender_ordinal, data.sender_id)
    IN IF ~c.ok THEN Err(s, c)
    ELSE IF data.sender_ordinal \notin DOMAIN s.received_round1_data
    THEN Err(s, RoundError(2, "Sender has not sent round 0 data"))
    ELSE IF data.pedersen_commitments = <<>>
    THEN Err(s, RoundError(2, "Pedersen commitments are empty"))
    ELSE IF Len(data.pedersen_commitments) # threshold
    THEN Err(s, RoundError(2, "Pedersen commitments length is not equal to threshold"))
    ELSE IF is_identity(data.message_generator)
    THEN Err(s, RoundError(2, "Message generator is the identity point"))
    ELSE IF is_identity(data.blinder_generator)
    THEN Err(s, RoundError(2, "Blinder generator is the identity point"))
    ELSE IF \E j \in 1 .. Len(data.pedersen_commitments) :
                is_identity(data.pedersen_commitments[j])
    THEN Err(s, RoundError(2, "Pedersen commitments contain the identity point"))
    ELSE IF compute_pedersen_commitments_hash(
                s.received_round1_data[data.sender_ordinal].sender_type,
                data.sender_ordinal, data.sender_id, threshold,
                data.pedersen_commitments)
            # s.received_round1_data[data.sender_ordinal].pedersen_commitment_hash
    THEN Err(s, RoundError(2, "Pedersen commitment hash does not match"))
    ELSE IF PointAdd(PointMul(message_generator, data.secret_share),
                     PointMul(blinder_generator, data.blind_share))
            # sum_of_products(powers_of_i(s.id), data.pedersen_commitments)
    THEN Err(s, RoundError(2, "The share does not verify with the given commitments"))
    ELSE Ok([s EXCEPT !.valid_participant_ids =
                          Insert(@, data.sender_ordinal, data.sender_id),
                      !.received_round2_data = Insert(@, data.sender_ordinal, data)],
            {})

\* receive_round2data that takes a reveal from a sender that never committed
receive_round2data_without_commitment(s, data) ==
    IF s.round > 3
    THEN Err(s, RoundError(2, "Invalid round payload received"))
    ELSE IF data.sender_ordinal \in DOMAIN s.received_round1_data
    THEN receive_round2data_no_gate(s, data)
    ELSE IF ~check_sending_participant_id(s, 2, data.sender_ordinal, data.sender_id).ok
    THEN Err(s, RoundError(2, "Unknown sender index"))
    ELSE Ok([s EXCEPT !.valid_participant_ids =
                          Insert(@, data.sender_ordinal, data.sender_id),
                      !.received_round2_data = Insert(@, data.sender_ordinal, data)],
            {})

\* receive_round2data that stores a reveal whose hash differs from the one
\* the sender committed to in round 1
receive_round2data_no_hash_check(s, data) ==
    IF s.round > 3
    THEN Err(s, RoundError(2, "Invalid round payload received"))
    ELSE LET r == receive_round2data_no_gate(s, data)
    IN IF r.res = RoundError(2, "Pedersen commitment hash does not match")
          /\ PointAdd(PointMul(message_generator, data.secret_share),
                      PointMul(blinder_generator, data.blind_share))
             = sum_of_products(powers_of_i(s.id), data.pedersen_commitments)
    THEN Ok([s EXCEPT !.valid_participant_ids =
                          Insert(@, data.sender_ordinal, data.sender_id),
                      !.received_round2_data = Insert(@, data.sender_ordinal, data)],
            {})
    ELSE r

\* receive_round2data that stores a reveal whose shares do not verify
receive_round2data_no_share_check(s, data) ==
    IF s.round > 3
    THEN Err(s, RoundError(2, "Invalid round payload received"))
    ELSE LET r == receive_round2data_no_gate(s, data)
    IN IF r.res = RoundError(2, "The share does not verify with the given commitments")
    THEN Ok([s EXCEPT !.valid_participant_ids =
                          Insert(@, data.sender_ordinal, data.sender_id),
                      !.received_round2_data = Insert(@, data.sender_ordinal, data)],
            {})
    ELSE r

\* receive_round2data that stores the payload and the sender before it
\* verifies the share, and leaves them stored when it returns the error
receive_round2data_stores_before_share_check(s, data) ==
    IF s.round > 3
    THEN Err(s, RoundError(2, "Invalid round payload received"))
    ELSE LET r == receive_round2data_no_gate(s, data)
    IN IF r.res = RoundError(2, "The share does not verify with the given commitments")
    THEN Err([s EXCEPT !.valid_participant_ids =
                           Insert(@, data.sender_ordinal, data.sender_id),
                       !.received_round2_data = Insert(@, data.sender_ordinal, data)],
             r.res)
    ELSE r

receive_round2data(s, data) ==
    IF s.round > 3
    THEN Err(s, RoundError(2, "Invalid round payload received"))
    ELSE IF data.sender_ordinal \in DOMAIN s.received_round2_data
    THEN Err(s, RoundError(2, "Sender has already sent data"))
    ELSE LET c == check_sending_participant_id(s, 2, data.sender_ordinal, data.sender_id)
    IN IF ~c.ok THEN Err(s, c)
    ELSE IF data.sender_ordinal \notin DOMAIN s.received_round1_data
    THEN Err(s, RoundError(2, "Sender has not sent round 0 data"))
    ELSE IF data.pedersen_commitments = <<>>
    THEN Err(s, RoundError(2, "Pedersen commitments are empty"))
    ELSE IF Len(data.pedersen_commitments) # threshold
    THEN Err(s, RoundError(2, "Pedersen commitments length is not equal to threshold"))
    ELSE IF is_identity(data.message_generator)
    THEN Err(s, RoundError(2, "Message generator is the identity point"))
    ELSE IF is_identity(data.blinder_generator)
    THEN Err(s, RoundError(2, "Blinder generator is the identity point"))
    ELSE IF \E j \in 1 .. Len(data.pedersen_commitments) :
                is_identity(data.pedersen_commitments[j])
    THEN Err(s, RoundError(2, "Pedersen commitments contain the identity point"))
    ELSE IF compute_pedersen_commitments_hash(
                s.received_round1_data[data.sender_ordinal].sender_type,
                data.sender_ordinal, data.sender_id, threshold,
                data.pedersen_commitments)
            # s.received_round1_data[data.sender_ordinal].pedersen_commitment_hash
    THEN Err(s, RoundError(2, "Pedersen commitment hash does not match"))
    ELSE IF PointAdd(PointMul(message_generator, data.secret_share),
                     PointMul(blinder_generator, data.blind_share))
            # sum_of_products(powers_of_i(s.id), data.pedersen_commitments)
    THEN Err(s, RoundError(2, "The share does not verify with the given commitments"))
    ELSE Ok([s EXCEPT !.valid_participant_ids =
                          Insert(@, data.sender_ordinal, data.sender_id),
                      !.received_round2_data = Insert(@, data.sender_ordinal, data)],
            {})

round3_ready(s) ==
    s.round = 3 /\ Cardinality(DOMAIN s.received_round2_data) >= threshold

\* round3 with the round label of the previous step written back
round3_writes_round_two(s) ==
    IF ~round3_ready(s)
    THEN Err(s, RoundError(3, "round not ready, haven't received enough data from other participants"))
    ELSE
    LET valid == [o \in DOMAIN s.received_round2_data |->
                     s.received_round2_data[o].sender_id]
        d == [sender_ordinal |-> s.ordinal,
              sender_id |-> s.id,
              feldman_commitments |-> own_feldman_commitments(s),
              valid_participant_ids |-> valid]
    IN Ok([s EXCEPT !.transcript = FoldValues(s.received_round2_data,
                                              DOMAIN s.received_round2_data, @),
                    !.valid_participant_ids = valid,
                    !.received_round3_data = Insert(@, s.ordinal, d),
                    !.round = 2],
          OutputTo(s, valid))

\* Round 3: echo the valid participant ids and reveal the Feldman commitments
round3(s) ==
    IF ~round3_ready(s)
    THEN Err(s, RoundError(3, "round not ready, haven't received enough data from other participants"))
    ELSE
    LET valid == [o \in DOMAIN s.received_round2_data |->
                     s.received_round2_data[o].sender_id]
        d == [sender_ordinal |-> s.ordinal,
              sender_id |-> s.id,
              feldman_commitments |-> own_feldman_commitments(s),
              valid_participant_ids |-> valid]
    IN Ok([s EXCEPT !.transcript = FoldValues(s.received_round2_data,
                                              DOMAIN s.received_round2_data, @),
                    !.valid_participant_ids = valid,
                    !.received_round3_data = Insert(@, s.ordinal, d),
                    !.round = 4],
          OutputTo(s, valid))

\* receive_round3data without the comparison of the echoed valid ids
receive_round3data_no_echo_check(s, data) ==
    IF s.round > 4
    THEN Err(s, RoundError(3, "Invalid round payload received"))
    ELSE IF data.sender_ordinal \in DOMAIN s.received_round3_data
    THEN Err(s, RoundError(3, "Sender has already sent data"))
    ELSE LET c == check_sending_participant_id(s, 3, data.sender_ordinal, data.sender_id)
    IN IF ~c.ok THEN Err(s, c)
    ELSE IF data.sender_ordinal \notin DOMAIN s.valid_participant_ids
    THEN Err(s, RoundError(3, "Not a valid participant"))
    ELSE IF data.sender_ordinal \notin DOMAIN s.received_round1_data
    THEN Err(s, RoundError(3, "Sender didn't send any previous round 0 data"))
    ELSE IF data.sender_ordinal \notin DOMAIN s.received_round2_data
    THEN Err(s, RoundError(3, "Sender didn't send any previous round 1 data"))
    ELSE IF data.feldman_commitments = <<>>
    THEN Err(s, RoundError(3, "Feldman commitments are empty"))
    ELSE IF Len(data.feldman_commitments) # threshold
    THEN Err(s, RoundError(3, "Feldman commitments length is not equal to threshold"))
    ELSE IF \E j \in 2 .. Len(data.feldman_commitments) :
                is_identity(data.feldman_commitments[j])
    THEN Err(s, RoundError(3, "Feldman commitments contain the identity point"))
    ELSE IF ~check_feldman_verifier(
                s.received_round1_data[data.sender_ordinal].sender_type,
                data.feldman_commitments[1])
    THEN Err(s, RoundError(3, "Feldman commitment is not a valid verifier"))
    ELSE IF compute_feldman_commitments_hash(
                s.received_round1_data[data.sender_ordinal].sender_type,
                data.sender_ordinal, data.sender_id, threshold,
                data.feldman_commitments)
            # s.received_round1_data[data.sender_ordinal].feldman_commitment_hash
    THEN Err(s, RoundError(3, "Feldman commitment hash does not match"))
    ELSE IF PointMul(message_generator,
                     s.received_round2_data[data.sender_ordinal].secret_share)
            # sum_of_products(powers_of_i(s.id), data.feldman_commitments)
    THEN Err(s, RoundError(3, "The share does not verify with the given commitments"))
    ELSE Ok([s EXCEPT !.received_round3_data = Insert(@, data.sender_ordinal, data)], {})

\* receive_round3data that stores Feldman commitments the sender's share does
\* not verify against
receive_round3data_no_share_check(s, data) ==
    IF s.round > 4
    THEN Err(s, RoundError(3, "Invalid round payload received"))
    ELSE IF data.sender_ordinal \in DOMAIN s.received_round3_data
    THEN Err(s, RoundError(3, "Sender has already sent data"))
    ELSE LET c == check_sending_participant_id(s, 3, data.sender_ordinal, data.sender_id)
    IN IF ~c.ok THEN Err(s, c)
    ELSE IF s.valid_participant_ids # data.valid_participant_ids
    THEN Err(s, RoundError(3, "Valid participant ids do not match"))
    ELSE IF data.sender_ordinal \notin DOMAIN s.valid_participant_ids
    THEN Err(s, RoundError(3, "Not a valid participant"))
    ELSE IF data.sender_ordinal \notin DOMAIN s.received_round1_data
    THEN Err(s, RoundError(3, "Sender didn't send any previous round 0 data"))
    ELSE IF data.sender_ordinal \notin DOMAIN s.received_round2_data
    THEN Err(s, RoundError(3, "Sender didn't send any previous round 1 data"))
    ELSE IF data.feldman_commitments = <<>>
    THEN Err(s, RoundError(3, "Feldman commitments are empty"))
    ELSE IF Len(data.feldman_commitments) # threshold
    THEN Err(s, RoundError(3, "Feldman commitments length is not equal to threshold"))
    ELSE IF \E j \in 2 .. Len(data.feldman_commitments) :
                is_identity(data.feldman_commitments[j])
    THEN Err(s, RoundError(3, "Feldman commitments contain the identity point"))
    ELSE IF ~check_feldman_verifier(
                s.received_round1_data[data.sender_ordinal].sender_type,
                data.feldman_commitments[1])
    THEN Err(s, RoundError(3, "Feldman commitment is not a valid verifier"))
    ELSE IF compute_feldman_commitments_hash(
                s.received_round1_data[data.sender_ordinal].sender_type,
                data.sender_ordinal, data.sender_id, threshold,
                data.feldman_commitments)
            # s.received_round1_data[data.sender_ordinal].feldman_commitment_hash
    THEN Err(s, RoundError(3, "Feldman commitment hash does not match"))
    ELSE Ok([s EXCEPT !.received_round3_data = Insert(@, data.sender_ordinal, data)], {})

\* receive_round3data that does not test the first Feldman commitment against
\* the type the sender declared
receive_round3data_no_type_check(s, data) ==
    IF s.round > 4
    THEN Err(s, RoundError(3, "Invalid round payload received"))
    ELSE IF data.sender_ordinal \in DOMAIN s.received_round3_data
    THEN Err(s, RoundError(3, "Sender has already sent data"))
    ELSE LET c == check_sending_participant_id(s, 3, data.sender_ordinal, data.sender_id)
    IN IF ~c.ok THEN Err(s, c)
    ELSE IF s.valid_participant_ids # data.valid_participant_ids
    THEN Err(s, RoundError(3, "Valid participant ids do not match"))
    ELSE IF data.sender_ordinal \notin DOMAIN s.valid_participant_ids
    THEN Err(s, RoundError(3, "Not a valid participant"))
    ELSE IF data.sender_ordinal \notin DOMAIN s.received_round1_data
    THEN Err(s, RoundError(3, "Sender didn't send any previous round 0 data"))
    ELSE IF data.sender_ordinal \notin DOMAIN s.received_round2_data
    THEN Err(s, RoundError(3, "Sender didn't send any previous round 1 data"))
    ELSE IF data.feldman_commitments = <<>>
    THEN Err(s, RoundError(3, "Feldman commitments are empty"))
    ELSE IF Len(data.feldman_commitments) # threshold
    THEN Err(s, RoundError(3, "Feldman commitments length is not equal to threshold"))
    ELSE IF \E j \in 2 .. Len(data.feldman_commitments) :
                is_identity(data.feldman_commitments[j])
    THEN Err(s, RoundError(3, "Feldman commitments contain the identity point"))
    ELSE IF compute_feldman_commitments_hash(
                s.received_round1_data[data.sender_ordinal].sender_type,
                data.sender_ordinal, data.sender_id, threshold,
                data.feldman_commitments)
            # s.received_round1_data[data.sender_ordinal].feldman_commitment_hash
    THEN Err(s, RoundError(3, "Feldman commitment hash does not match"))
    ELSE IF PointMul(message_generator,
                     s.received_round2_data[data.sender_ordinal].secret_share)
            # sum_of_products(powers_of_i(s.id), data.feldman_commitments)
    THEN Err(s, RoundError(3, "The share does not verify with the given commitments"))
    ELSE Ok([s EXCEPT !.received_round3_data = Insert(@, data.sender_ordinal, data)], {})

receive_round3data(s, data) ==
    IF s.round > 4
    THEN Err(s, RoundError(3, "Invalid round payload received"))
    ELSE IF data.sender_ordinal \in DOMAIN s.received_round3_data
    THEN Err(s, RoundError(3, "Sender has already sent data"))
    ELSE LET c == check_sending_participant_id(s, 3, data.sender_ordinal, data.sender_id)
    IN IF ~c.ok THEN Err(s, c)
    ELSE IF s.valid_participant_ids # data.valid_participant_ids
    THEN Err(s, RoundError(3, "Valid participant ids do not match"))
    ELSE IF data.sender_ordinal \notin DOMAIN s.valid_participant_ids
    THEN Err(s, RoundError(3, "Not a valid participant"))
    ELSE IF data.sender_ordinal \notin DOMAIN s.received_round1_data
    THEN Err(s, RoundError(3, "Sender didn't send any previous round 0 data"))
    ELSE IF data.sender_ordinal \notin DOMAIN s.received_round2_data
    THEN Err(s, RoundError(3, "Sender didn't send any previous round 1 data"))
    ELSE IF data.feldman_commitments = <<>>
    THEN Err(s, RoundError(3, "Feldman commitments are empty"))
    ELSE IF Len(data.feldman_commitments) # threshold
    THEN Err(s, RoundError(3, "Feldman commitments length is not equal to threshold"))
    ELSE IF \E j \in 2 .. Len(data.feldman_commitments) :
                is_identity(data.feldman_commitments[j])
    THEN Err(s, RoundError(3, "Feldman commitments contain the identity point"))
    ELSE IF ~check_feldman_verifier(
                s.received_round1_data[data.sender_ordinal].sender_type,
                data.feldman_commitments[1])
    THEN Err(s, RoundError(3, "Feldman commitment is not a valid verifier"))
    ELSE IF compute_feldman_commitments_hash(
                s.received_round1_data[data.sender_ordinal].sender_type,
                data.sender_ordinal, data.sender_id, threshold,
                data.feldman_commitments)
            # s.received_round1_data[data.sender_ordinal].feldman_commitment_hash
    THEN Err(s, RoundError(3, "Feldman commitment hash does not match"))
    ELSE IF PointMul(message_generator,
                     s.received_round2_data[data.sender_ordinal].secret_share)
            # sum_of_products(powers_of_i(s.id), data.feldman_commitments)
    THEN Err(s, RoundError(3, "The share does not verify with the given commitments"))
    ELSE Ok([s EXCEPT !.received_round3_data = Insert(@, data.sender_ordinal, data)], {})

\* SecretParticipantImpl / RefreshParticipantImpl ::check_public_key
check_public_key(participant_type, key, computed) ==
    IF participant_type = "Secret"
    THEN ~is_identity(key) /\ key # computed
    ELSE is_identity(key) /\ is_identity(computed)

RECURSIVE SumOver(_, _)
SumOver(f, keys) ==
    IF keys = {} THEN 0
    ELSE LET k == CHOOSE x \in keys : TRUE
         IN (f[k] + SumOver(f, keys \ {k})) % FieldOrder

transcript_hash(transcript, public_key) ==
    <<"protocol transcript", transcript, public_key>>

round4_ready(s) ==
    s.round = 4 /\ Cardinality(DOMAIN s.received_round3_data) >= threshold

\* Round 4: compute the secret share and the public key from the accepted
\* peers, then echo the transcript hash and the public key
round4(s) ==
    IF ~round4_ready(s)
    THEN Err(s, RoundError(4, "round not ready, haven't received enough data from other participants"))
    ELSE
    LET accepted == DOMAIN s.received_round3_data
        valid == [o \in accepted |-> s.received_round3_data[o].sender_id]
        share == SumOver([o \in accepted |-> s.received_round2_data[o].secret_share],
                         accepted)
        key == SumOver([o \in accepted |-> s.received_round3_data[o].feldman_commitments[1]],
                       accepted)
        tr == FoldValues(s.received_round3_data,
                         accepted, s.transcript)
        d == [sender_ordinal |-> s.ordinal,
              sender_id |-> s.id,
              transcript_hash |-> transcript_hash(tr, key),
              public_key |-> key]
    IN IF ~check_public_key(s.type, key, own_feldman_commitments(s)[1])
       THEN Err(s, RoundError(4, "Invalid public key"))
       ELSE Ok([s EXCEPT !.transcript = tr,
                         !.valid_participant_ids = valid,
                         !.secret_share = share,
                         !.public_key = key,
                         !.received_round4_data = Insert(@, s.ordinal, d),
                         !.round = 5],
               OutputTo(s, valid))

receive_round4data(s, data) ==
    IF data.sender_ordinal \in DOMAIN s.received_round4_data
    THEN Err(s, RoundError(4, "Sender has already sent data"))
    ELSE LET c == check_sending_participant_id(s, 4, data.sender_ordinal, data.sender_id)
    IN IF ~c.ok THEN Err(s, c)
    ELSE IF data.sender_ordinal \notin DOMAIN s.valid_participant_ids
    THEN Err(s, RoundError(4, "Not a valid participant"))
    ELSE IF s.ordinal \notin DOMAIN s.received_round4_data
    THEN Err(s, RoundError(4, "Invalid round payload received"))
    ELSE IF data.transcript_hash # s.received_round4_data[s.ordinal].transcript_hash
    THEN Err(s, RoundError(4, "Transcript hash does not match"))
    ELSE IF data.public_key # s.public_key
    THEN Err(s, RoundError(4, "Public key does not match"))
    ELSE Ok([s EXCEPT !.received_round4_data = Insert(@, data.sender_ordinal, data)], {})

\* Participant::run
run(s) ==
    CASE s.round = 1 -> round1(s)
      [] s.round = 2 -> round2(s)
      [] s.round = 3 -> round3(s)
      [] s.round = 4 -> round4(s)
      [] OTHER -> Err(s, RoundError(5, "nothing more to run"))

\* Round::try_from(u8)
Round_try_from(tag) == IF tag \in 1 .. 5 THEN tag ELSE 0

\* Participant::receive: the first byte selects the payload type
receive(s, tag, data) ==
    CASE Round_try_from(tag) = 0 -> Err(s, InitializationError("Invalid round"))
      [] Round_try_from(tag) = 1 -> receive_round1data(s, data)
      [] Round_try_from(tag) = 2 -> receive_round2data(s, data)
      [] Round_try_from(tag) = 3 -> receive_round3data(s, data)
      [] Round_try_from(tag) = 4 -> receive_round4data(s, data)
      [] OTHER -> Err(s, RoundError(5, "Protocol is complete"))

\* a message body that is not the postcard encoding of any payload
Garbage == <<"garbage">>

PostcardError == [ok |-> FALSE, round |-> 0, msg |-> "Postcard error"]

\* a panic, not an Err: indexing past the end of a slice or a Vec (data[0]
\* of an empty message, powers_of_i[1] of a Vec of length 1)
IndexOutOfBounds == [ok |-> FALSE, round |-> 0 - 1, msg |-> "index out of bounds"]

\* Participant::receive on the bytes of a message: data[0] is the round tag,
\* data[1..] the postcard encoding of the payload.  A message is modelled as
\* the sequence of its tag and its decoded body; the body is missing when
\* the message ends after the tag
Participant_receive(s, data) ==
    IF data = <<>>
    THEN Err(s, IndexOutOfBounds)
    ELSE IF Round_try_from(data[1]) = 0
    THEN Err(s, InitializationError("Invalid round"))
    ELSE IF Round_try_from(data[1]) = 5
    THEN Err(s, RoundError(5, "Protocol is complete"))
    ELSE IF Len(data) < 2 \/ data[2] = Garbage
    THEN Err(s, PostcardError)
    ELSE receive(s, data[1], data[2])

\* the malformed messages: no bytes at all, a tag that is no round, a tag
\* without a body, a tag with a body that does not decode
MalformedMessages ==
    {<<>>, <<0>>, <<6, Garbage>>}
    \cup {<<tag>> : tag \in 1 .. 4}
    \cup {<<tag, Garbage>> : tag \in 1 .. 4}

(***************************************************************************)
(* The payloads a transport can hand to receive().  Peers other than Bad   *)
(* send what the code produces for them; Bad may send any of a menu of     *)
(* deviations, including coherent second dealings.                         *)
(***************************************************************************)
Self == 0

Peers == Ordinals \ {Self}

Bad == limit - 1

HonestPersona(o) ==
    [type |-> "Secret", poly |-> secret_polynomial(o), bpoly |-> blinder_polynomial(o)]

AltPersona(o) ==
    [type |-> "Secret", poly |-> alt_secret_polynomial(o), bpoly |-> blinder_polynomial(o)]

RefreshPersona(o) ==
    [type |-> "Refresh", poly |-> refresh_secret_polynomial(o),
     bpoly |-> blinder_polynomial(o)]

\* (sender_ordinal, sender_id) pairs: the registered pair of every peer, and
\* for Bad a zero id, the receiver's id, another peer's id, an ordinal out of
\* range and the receiver's ordinal
Senders ==
    {<<o, all_participant_ids[o]>> : o \in Peers}
    \cup {<<Bad, 0>>, <<Bad, all_participant_ids[Self]>>, <<Bad, all_participant_ids[1]>>,
          <<limit, limit + 1>>, <<Self, all_participant_ids[Bad]>>}

\* declares itself Secret and deals the zero secret of a refresh
DisguisedPersona(o) ==
    [type |-> "Secret", poly |-> refresh_secret_polynomial(o),
     bpoly |-> blinder_polynomial(o)]

Personas(sv) ==
    IF sv[1] = Bad /\ sv[2] = all_participant_ids[Bad]
    THEN {HonestPersona(Bad), AltPersona(Bad), RefreshPersona(Bad), DisguisedPersona(Bad)}
    ELSE {HonestPersona(sv[1])}

CommitData(sv, per) ==
    [sender_ordinal |-> sv[1],
     sender_id |-> sv[2],
     sender_type |-> per.type,
     pedersen_commitment_hash |->
         compute_pedersen_commitments_hash(per.type, sv[1], sv[2], threshold,
                                           pedersen_verifier_set(per.poly, per.bpoly)),
     feldman_commitment_hash |->
         compute_feldman_commitments_hash(per.type, sv[1], sv[2], threshold,
                                          feldman_verifier_set(per.poly))]

\* Bad commits to the Pedersen commitments of one dealing and to the Feldman
\* commitments of another
MixedCommit ==
    [CommitData(<<Bad, all_participant_ids[Bad]>>, HonestPersona(Bad))
         EXCEPT !.feldman_commitment_hash =
             CommitData(<<Bad, all_participant_ids[Bad]>>,
                        AltPersona(Bad)).feldman_commitment_hash]

Round1Payloads ==
    UNION {{CommitData(sv, per) : per \in Personas(sv)} : sv \in Senders}
    \cup {[CommitData(<<Bad, all_participant_ids[Bad]>>, HonestPersona(Bad))
               EXCEPT !.pedersen_commitment_hash = ZeroHash],
          [CommitData(<<Bad, all_participant_ids[Bad]>>, HonestPersona(Bad))
               EXCEPT !.feldman_commitment_hash = ZeroHash],
          MixedCommit}

RevealData(sv, per, dst) ==
    [sender_ordinal |-> sv[1],
     sender_id |-> sv[2],
     message_generator |-> message_generator,
     blinder_generator |-> blinder_generator,
     pedersen_commitments |-> pedersen_verifier_set(per.poly, per.bpoly),
     secret_share |-> secret_shares(per.poly)[dst],
     blind_share |-> secret_shares(per.bpoly)[dst]]

BadReveal == RevealData(<<Bad, all_participant_ids[Bad]>>, HonestPersona(Bad), Self)

Round2Payloads ==
    UNION {{RevealData(sv, per, Self) : per \in Personas(sv)} : sv \in Senders}
    \cup {[BadReveal EXCEPT !.pedersen_commitments = <<>>],
          [BadReveal EXCEPT !.pedersen_commitments = <<@[1]>>],
          [BadReveal EXCEPT !.pedersen_commitments = @ \o <<1>>],
          [BadReveal EXCEPT !.pedersen_commitments = <<identity, @[2]>>],
          [BadReveal EXCEPT !.pedersen_commitments = <<@[1], identity>>],
          [BadReveal EXCEPT !.message_generator = identity],
          [BadReveal EXCEPT !.blinder_generator = identity],
          [BadReveal EXCEPT !.secret_share = ScalarAdd(@, 1)],
          RevealData(<<Bad, all_participant_ids[Bad]>>, HonestPersona(Bad), 1)}

\* the valid participant ids a peer may echo to a receiver: the receiver's
\* own set, that set with Bad added or removed, or that set with an
\* unregistered id at ordinal 1
EchoedValidIds(s) ==
    {s.valid_participant_ids,
     IF Bad \in DOMAIN s.valid_participant_ids
     THEN [o \in (DOMAIN s.valid_participant_ids) \ {Bad} |-> s.valid_participant_ids[o]]
     ELSE Insert(s.valid_participant_ids, Bad, all_participant_ids[Bad]),
     Insert(s.valid_participant_ids, 1, limit + 1)}

FeldmanData(sv, per, valid) ==
    [sender_ordinal |-> sv[1],
     sender_id |-> sv[2],
     feldman_commitments |-> feldman_verifier_set(per.poly),
     valid_participant_ids |-> valid]

BadFeldman(valid) ==
    FeldmanData(<<Bad, all_participant_ids[Bad]>>, HonestPersona(Bad), valid)

Round3Payloads(s) ==
    UNION {{FeldmanData(sv, per, valid) : per \in Personas(sv), valid \in EchoedValidIds(s)}
               : sv \in Senders}
    \cup {[BadFeldman(s.valid_participant_ids) EXCEPT !.feldman_commitments = <<>>],
          [BadFeldman(s.valid_participant_ids) EXCEPT !.feldman_commitments = <<@[1]>>],
          [BadFeldman(s.valid_participant_ids) EXCEPT !.feldman_commitments = @ \o <<1>>],
          [BadFeldman(s.valid_participant_ids) EXCEPT !.feldman_commitments = <<identity, @[2]>>],
          [BadFeldman(s.valid_participant_ids) EXCEPT !.feldman_commitments = <<@[1], identity>>]}

\* a peer's echo of the transcript hash and the public key: what the receiver
\* computed itself, or something else
Round4Payloads(s) ==
    {[sender_ordinal |-> sv[1],
      sender_id |-> sv[2],
      transcript_hash |-> h,
      public_key |-> k]
        : sv \in Senders,
          h \in {transcript_hash(s.transcript, s.public_key), ZeroHash},
          k \in {s.public_key, PointAdd(s.public_key, 1)}}

NoData == [sender_ordinal |-> 0 - 1]

(***************************************************************************)
(* Specification of one participant and its transport                      *)
(***************************************************************************)
\* the explicit-round participants are not part of this specification
OldInitial ==
    /\ ps = <<>>
    /\ net = <<>>
    /\ olast = <<>>

Init ==
    /\ p = initialize(Self)
    /\ last = [op |-> "new", tag |-> 0, res |-> NoError, out |-> {}, ended |-> {}]
    /\ OldInitial

\* one call on the participant; last records the call and what it returned
\* last.ended is the membership of valid_participant_ids when the last round
\* ended, that is when run() last returned Ok
Call(op, tag, r) ==
    /\ p' = r.st
    /\ last' = [op |-> op, tag |-> tag, res |-> r.res, out |-> r.out,
                ended |-> IF op = "run" /\ r.res.ok
                          THEN DOMAIN r.st.valid_participant_ids
                          ELSE last.ended]
    /\ UNCHANGED <<ps, net, olast>>

Run == Call("run", p.round, run(p))

ReceiveRound1 == \E d \in Round1Payloads : Call("receive", 1, receive(p, 1, d))

ReceiveRound2 == \E d \in Round2Payloads : Call("receive", 2, receive(p, 2, d))

ReceiveRound3 == \E d \in Round3Payloads(p) : Call("receive", 3, receive(p, 3, d))

ReceiveRound4 == \E d \in Round4Payloads(p) : Call("receive", 4, receive(p, 4, d))

ReceiveOtherTag == \E tag \in {0, 5, 6} : Call("receive", tag, receive(p, tag, NoData))

ReceiveMalformed ==
    \E data \in MalformedMessages :
        Call("receive", IF data = <<>> THEN 0 - 1 ELSE data[1], Participant_receive(p, data))

Next ==
    \/ Run
    \/ ReceiveRound1
    \/ ReceiveRound2
    \/ ReceiveRound3
    \/ ReceiveRound4
    \/ ReceiveOtherTag
    \/ ReceiveMalformed

Spec == Init /\ [][Next]_vars

(***************************************************************************)
(* Properties of the run()/receive() participant                           *)
(***************************************************************************)
NotReady(k) ==
    RoundError(k, "round not ready, haven't received enough data from other participants")

EchoMismatch == RoundError(3, "Valid participant ids do not match")

received(s, k) ==
    CASE k = 1 -> s.received_round1_data
      [] k = 2 -> s.received_round2_data
      [] k = 3 -> s.received_round3_data
      [] OTHER -> s.received_round4_data

\* C3: across any sequence of run() and receive() calls the round number
\* never decreases, and once it is Five it stays Five
C3_RoundNeverDecreases ==
    [][p'.round >= p.round /\ (p.round = 5 => p'.round = 5)]_vars

\* the participant reached Five and was called again afterwards
C3_Witness == p.round = 5 /\ last.op = "receive" /\ last.tag = 4

FatalErrors ==
    {EchoMismatch,
     RoundError(4, "Invalid public key"),
     RoundError(4, "Transcript hash does not match"),
     RoundError(4, "Public key does not match")}

C8_RunNeedsThresholdEntries ==
    [][(last'.op = "run" /\ p.round \in {2, 3}) =>
          LET n == Cardinality(DOMAIN received(p, p.round - 1))
          IN /\ last'.res.ok => n >= threshold
             /\ n < threshold => (last'.res = NotReady(p.round) /\ p' = p)]_vars

\* run() failed for want of round 1 payloads, the own one being there
C8_Witness ==
    /\ last.op = "run"
    /\ last.res = NotReady(2)
    /\ Self \in DOMAIN p.received_round1_data
    /\ Cardinality(DOMAIN p.received_round1_data) < threshold

\* C10 as stated: a round k message is accepted only while the participant
\* has not run past the step that consumes it (round <= k + 1), and a message
\* tagged for a round later than the participant's current round is rejected
C10_FutureRoundRejected ==
    [][(last'.op = "receive" /\ last'.tag \in 1 .. 3) =>
          /\ last'.res.ok => p.round <= last'.tag + 1
          /\ last'.tag > p.round => ~last'.res.ok]_vars

\* C10 amended: a round k message (k = 1, 2, 3) is accepted only while the
\* participant's round is at most k + 1; there is no lower limit
C10_AcceptedOnlyUpToNextRound ==
    [][(last'.op = "receive" /\ last'.tag \in 1 .. 3 /\ last'.res.ok) =>
          p.round <= last'.tag + 1]_vars

\* a round 2 payload was accepted by a participant still in round One
C10_Witness ==
    /\ last.op = "receive"
    /\ last.tag = 2
    /\ last.res.ok
    /\ p.round = 1

(***************************************************************************)
(* The explicit-round participant: round1() .. round5() take the other     *)
(* participants' outputs as maps keyed by participant id                   *)
(***************************************************************************)
THRESHOLD == 2

LIMIT == 4

BAD_ID == 4

Ids == 1 .. LIMIT

\* a Shamir share: the x-coordinate it was evaluated at and the value
Share(identifier, value) == [identifier |-> identifier, value |-> value]

\* components.secret_shares / components.blind_shares: one share per id
component_shares(poly, n) == [i \in 1 .. n |-> Share(i, EvalPoly(poly, i))]

\* Pedersen::split_secret with t coefficients and n shares: the shares of
\* the secret and of the blinder, and the two sets of commitments
split_secret(poly, bpoly, t, n) ==
    [secret_shares |-> component_shares(SubSeq(poly, 1, t), n),
     blind_shares |-> component_shares(SubSeq(bpoly, 1, t), n),
     pedersen_commitments |-> pedersen_verifier_set(SubSeq(poly, 1, t), SubSeq(bpoly, 1, t)),
     feldman_commitments |-> feldman_verifier_set(SubSeq(poly, 1, t))]

\* BTreeMap iteration order
RECURSIVE SortedKeys(_)
SortedKeys(keys) ==
    IF keys = {} THEN <<>>
    ELSE LET k == CHOOSE x \in keys : \A y \in keys : x <= y
         IN <<k>> \o SortedKeys(keys \ {k})

\* Sum_j x^j * commitments[j]
RECURSIVE EvalCommitments(_, _)
EvalCommitments(commitments, x) ==
    IF commitments = <<>> THEN identity
    ELSE PointAdd(Head(commitments), PointMul(EvalCommitments(Tail(commitments), x), x))

\* PedersenVerifier::verify(share, blind_share)
pedersen_verify(commitments, share, blind_share) ==
    PointAdd(PointMul(message_generator, share.value),
             PointMul(blinder_generator, blind_share.value))
        = EvalCommitments(commitments, share.identifier)

\* FeldmanVerifierSet::verify_share(share) for a given generator
feldman_verify_share(generator, commitments, share) ==
    /\ share.value # 0
    /\ PointMul(generator, share.value) = EvalCommitments(commitments, share.identifier)

\* SecretParticipant::initialize: the participant with an id that deals the
\* polynomials poly and bpoly under parameters (threshold t, limit n)
SecretParticipant_initialize(id, t, n, poly, bpoly) ==
    [id |-> id,
     type |-> "Secret",
     threshold |-> t,
     limit |-> n,
     components |-> split_secret(poly, bpoly, t, n),
     round |-> 1,
     valid_participant_ids |-> {},
     secret_share |-> 0,
     public_key |-> identity,
     round1_p2p_data |-> EmptyMap,
     round1_broadcast_data |-> EmptyMap]

\* the Lagrange coefficient at zero of the share with identifier share
RECURSIVE lagrange_loop(_, _, _, _)
lagrange_loop(share, shares_ids, num, den) ==
    IF shares_ids = <<>> THEN ScalarMul(num, ScalarInvert(den))
    ELSE LET x_j == Head(shares_ids)
         IN IF x_j = share
            THEN lagrange_loop(share, Tail(shares_ids), num, den)
            ELSE lagrange_loop(share, Tail(shares_ids),
                               ScalarMul(num, x_j), ScalarMul(den, ScalarSub(x_j, share)))

lagrange(share, shares_ids) == lagrange_loop(share, shares_ids, 1, 1)

\* with_secret: the participant deals share * lagrange(share, shares_ids) as
\* its secret.  The further coefficient and the blinder come from the RNG;
\* they are fixed here so that no dealt value is zero by accident.
Participant_with_secret(id, t, n, share, shares_ids) ==
    SecretParticipant_initialize(id, t, n,
                                 <<ScalarMul(share, lagrange(share, shares_ids)), id>>,
                                 blinder_polynomial(id + 1))

\* SecretParticipant::new with parameters (threshold t, limit n)
SecretParticipant_new(id, t, n) ==
    SecretParticipant_initialize(id, t, n, secret_polynomial(id - 1),
                                 blinder_polynomial(id - 1))

Round1BroadcastData(pedersen_commitments) ==
    [blinder_generator |-> blinder_generator,
     message_generator |-> message_generator,
     pedersen_commitments |-> pedersen_commitments]

Round1P2PData(secret_share, blind_share) ==
    [secret_share |-> secret_share, blind_share |-> blind_share]

\* round1: the output is the broadcast data and one p2p entry per other id
\* round1 without the check of the current round
round1_without_round_check(s) ==
    [st |-> [s EXCEPT !.round = 2],
     res |-> NoError,
     out |-> [bdata |-> Round1BroadcastData(s.components.pedersen_commitments),
              p2p |-> [i \in (1 .. s.limit) \ {s.id} |->
                          Round1P2PData(s.components.secret_shares[i],
                                        s.components.blind_shares[i])]]]

SecretParticipant_round1(s) ==
    IF s.round # 1
    THEN Err(s, RoundError(1, "Invalid Round"))
    ELSE [st |-> [s EXCEPT !.round = 2],
          res |-> NoError,
          out |-> [bdata |-> Round1BroadcastData(s.components.pedersen_commitments),
                   p2p |-> [i \in (1 .. s.limit) \ {s.id} |->
                               Round1P2PData(s.components.secret_shares[i],
                                             s.components.blind_shares[i])]]]

\* the loop of round2 over zip(broadcast_data, p2p_data), from entry k on;
\* acc carries valid_participant_ids and secret_share
RECURSIVE round2_loop(_, _, _, _, _, _)
round2_loop(s, bkeys, pkeys, broadcast_data, p2p_data, k) ==
    IF k > Len(bkeys) \/ k > Len(pkeys) THEN [st |-> s, res |-> NoError]
    ELSE LET bid == bkeys[k]
             bdata == broadcast_data[bid]
             p2p == p2p_data[pkeys[k]]
         IN IF bid # pkeys[k]
            THEN [st |-> s, res |-> RoundError(2, "Missing data from participant")]
            ELSE IF \/ bdata.blinder_generator # blinder_generator
                    \/ bdata.message_generator # message_generator
                    \/ Len(bdata.pedersen_commitments) # s.threshold
            THEN round2_loop(s, bkeys, pkeys, broadcast_data, p2p_data, k + 1)
            ELSE IF \/ \E j \in 1 .. Len(bdata.pedersen_commitments) :
                          is_identity(bdata.pedersen_commitments[j])
                    \/ p2p.secret_share.value = 0
                    \/ p2p.blind_share.value = 0
            THEN round2_loop(s, bkeys, pkeys, broadcast_data, p2p_data, k + 1)
            ELSE IF ~pedersen_verify(bdata.pedersen_commitments, p2p.secret_share,
                                     p2p.blind_share)
            THEN round2_loop(s, bkeys, pkeys, broadcast_data, p2p_data, k + 1)
            ELSE round2_loop([s EXCEPT !.secret_share = ScalarAdd(@, p2p.secret_share.value),
                                       !.valid_participant_ids = @ \cup {bid}],
                             bkeys, pkeys, broadcast_data, p2p_data, k + 1)

\* round2 that keeps every sender in the valid set, verified or not
round2_keeps_every_sender(s, broadcast_data, p2p_data) ==
    LET og == s.components.secret_shares[s.id].value
        l == round2_loop([s EXCEPT !.valid_participant_ids = {}, !.secret_share = og],
                         SortedKeys(DOMAIN broadcast_data), SortedKeys(DOMAIN p2p_data),
                         broadcast_data, p2p_data, 1)
        s2 == [l.st EXCEPT !.valid_participant_ids = DOMAIN broadcast_data \cup {s.id}]
    IN IF s.round # 2 \/ DOMAIN broadcast_data = {}
       THEN Err(s, RoundError(2, "Invalid Round"))
       ELSE [st |-> [s2 EXCEPT !.round = 3,
                               !.round1_p2p_data = p2p_data,
                               !.round1_broadcast_data = broadcast_data],
             res |-> NoError,
             out |-> [valid_participant_ids |-> s2.valid_participant_ids]]

SecretParticipant_round2(s, broadcast_data, p2p_data) ==
    IF s.round # 2
    THEN Err(s, RoundError(2, "Invalid Round"))
    ELSE IF DOMAIN broadcast_data = {}
    THEN Err(s, RoundError(2, "Missing broadcast data from other participants"))
    ELSE IF DOMAIN p2p_data = {}
    THEN Err(s, RoundError(2, "Missing peer-to-peer data from other participants"))
    ELSE IF Cardinality(DOMAIN broadcast_data) # Cardinality(DOMAIN p2p_data)
    THEN Err(s, RoundError(2, "Mismatching broadcast data and peer-to-peer data"))
    ELSE IF Cardinality(DOMAIN broadcast_data) > s.limit
    THEN Err(s, RoundError(2, "Too much participant data"))
    ELSE IF Cardinality(DOMAIN broadcast_data) < s.threshold
    THEN Err(s, RoundError(2, "Not enough participant data"))
    ELSE
    LET og == s.components.secret_shares[s.id].value
        l == round2_loop([s EXCEPT !.valid_participant_ids = {}, !.secret_share = og],
                         SortedKeys(DOMAIN broadcast_data), SortedKeys(DOMAIN p2p_data),
                         broadcast_data, p2p_data, 1)
        s1 == l.st
        s2 == [s1 EXCEPT !.valid_participant_ids = @ \cup {s.id}]
    IN IF ~l.res.ok THEN Err(s1, l.res)
       ELSE IF s1.secret_share = 0 \/ s1.secret_share = og
       THEN Err(s1, RoundError(2, "The resulting secret key share is invalid"))
       ELSE IF Cardinality(s2.valid_participant_ids) < s.threshold
       THEN Err(s2, RoundError(2, "Not enough valid participants, below the threshold"))
       ELSE [st |-> [s2 EXCEPT !.round = 3,
                               !.round1_p2p_data = p2p_data,
                               !.round1_broadcast_data = broadcast_data],
             res |-> NoError,
             out |-> [valid_participant_ids |-> s2.valid_participant_ids]]

SecretParticipant_round3(s, echo_data) ==
    IF s.round # 3
    THEN Err(s, RoundError(3, "Invalid Round."))
    ELSE IF DOMAIN echo_data = {}
    THEN Err(s, RoundError(3, "Missing broadcast data from other participants. Echo data is empty"))
    ELSE IF Cardinality(DOMAIN echo_data) # Cardinality(s.valid_participant_ids)
    THEN Err(s, RoundError(3, "Missing broadcast data from other participants. Non-sufficient echo data provided."))
    ELSE
    LET unknown == {id \in (DOMAIN echo_data) \ {s.id} : id \notin s.valid_participant_ids}
        differ == {id \in (DOMAIN echo_data) \ {s.id} :
                      s.valid_participant_ids \ echo_data[id].valid_participant_ids # {}}
        first == CHOOSE x \in unknown \cup differ : \A y \in unknown \cup differ : x <= y
    IN IF unknown \cup differ # {}
       THEN IF first \in unknown
            THEN Err(s, RoundError(3, "Received data from malicious participant."))
            ELSE Err(s, RoundError(3, "Received data from malicious participant. Valid sets don't match."))
       ELSE [st |-> [s EXCEPT !.round = 4],
          res |-> NoError,
          out |-> [message_generator |-> message_generator,
                   commitments |-> s.components.feldman_commitments]]

PointSub(g, h) == (g + FieldOrder - h) % FieldOrder

\* pedersen commitment minus feldman commitment, entry by entry
blinder_verifiers(pedersen_commitments, commitments) ==
    [j \in 1 .. (IF Len(pedersen_commitments) < Len(commitments)
                 THEN Len(pedersen_commitments) ELSE Len(commitments)) |->
        PointSub(pedersen_commitments[j], commitments[j])]

\* the loop of round4 over broadcast_data, from entry k of keys on
RECURSIVE round4_loop(_, _, _, _)
round4_loop(s, keys, broadcast_data, k) ==
    IF k > Len(keys) THEN [st |-> s, res |-> NoError]
    ELSE
    LET id == keys[k]
        bdata == broadcast_data[id]
        removed == [s EXCEPT !.valid_participant_ids = @ \ {id}]
    IN IF s.id = id \/ id \notin s.valid_participant_ids
       THEN round4_loop(s, keys, broadcast_data, k + 1)
       ELSE IF id \notin DOMAIN s.round1_p2p_data \/ id \notin DOMAIN s.round1_broadcast_data
       THEN round4_loop(removed, keys, broadcast_data, k + 1)
       ELSE IF \E j \in 2 .. Len(bdata.commitments) : is_identity(bdata.commitments[j])
       THEN round4_loop(removed, keys, broadcast_data, k + 1)
       ELSE IF ~feldman_verify_share(message_generator, bdata.commitments,
                                     s.round1_p2p_data[id].secret_share)
       THEN round4_loop(removed, keys, broadcast_data, k + 1)
       ELSE IF Cardinality(s.valid_participant_ids) < s.threshold
       THEN [st |-> s, res |-> RoundError(4, "Not enough valid participants to continue")]
       ELSE LET added == [s EXCEPT !.public_key = PointAdd(@, bdata.commitments[1])]
            IN IF ~feldman_verify_share(
                       blinder_generator,
                       blinder_verifiers(s.round1_broadcast_data[id].pedersen_commitments,
                                         bdata.commitments),
                       s.round1_p2p_data[id].blind_share)
               THEN round4_loop([added EXCEPT !.valid_participant_ids = @ \ {id}],
                                keys, broadcast_data, k + 1)
               ELSE round4_loop(added, keys, broadcast_data, k + 1)

\* round4 that leaves the peers' commitments out of the public key
round4_own_key_only(s, broadcast_data) ==
    IF s.round # 4 \/ Cardinality(DOMAIN broadcast_data) < s.threshold
    THEN Err(s, RoundError(4, "Invalid Round"))
    ELSE LET own == s.components.feldman_commitments[1]
         IN [st |-> [s EXCEPT !.public_key = own, !.round = 5],
             res |-> NoError,
             out |-> [public_key |-> own]]

SecretParticipant_round4(s, broadcast_data) ==
    IF s.round # 4
    THEN Err(s, RoundError(4, "Invalid Round"))
    ELSE IF DOMAIN broadcast_data = {}
    THEN Err(s, RoundError(4, "Missing broadcast data from other participants. Broadcast data is empty"))
    ELSE IF Cardinality(DOMAIN broadcast_data) < s.threshold
    THEN Err(s, RoundError(4, "Missing broadcast data from other participants. Non-sufficient data provided."))
    ELSE
    LET l == round4_loop([s EXCEPT !.public_key = s.components.feldman_commitments[1]],
                         SortedKeys(DOMAIN broadcast_data), broadcast_data, 1)
    IN IF ~l.res.ok THEN Err(l.st, l.res)
       ELSE [st |-> [l.st EXCEPT !.round = 5],
             res |-> NoError,
             out |-> [public_key |-> l.st.public_key]]

\* round5 takes &self: it checks and changes nothing
SecretParticipant_round5(s, broadcast_data) ==
    IF s.round # 5
    THEN Err(s, RoundError(5, "Invalid Round."))
    ELSE IF DOMAIN broadcast_data = {}
    THEN Err(s, RoundError(5, "Missing broadcast data from other participants. Broadcast data is empty"))
    ELSE IF Cardinality(DOMAIN broadcast_data) # Cardinality(s.valid_participant_ids)
    THEN Err(s, RoundError(4, "Missing broadcast data from other participants. Non-sufficient data provided."))
    ELSE
    LET unknown == {id \in (DOMAIN broadcast_data) \ {s.id} :
                       \/ id \notin s.valid_participant_ids
                       \/ id \notin DOMAIN s.round1_p2p_data
                       \/ id \notin DOMAIN s.round1_broadcast_data}
        differ == {id \in (DOMAIN broadcast_data) \ {s.id} :
                      broadcast_data[id].public_key # s.public_key}
        first == CHOOSE x \in unknown \cup differ : \A y \in unknown \cup differ : x <= y
    IN IF unknown \cup differ # {}
       THEN IF first \in unknown
            THEN Err(s, RoundError(4, "Received data from malicious participant."))
            ELSE Err(s, RoundError(5, "Public key does not match."))
       ELSE [st |-> s, res |-> NoError, out |-> {}]

\* get_secret_share / get_public_key: Some only in round Five
get_secret_share(s) == IF s.round = 5 THEN <<s.secret_share>> ELSE <<>>

get_public_key(s) == IF s.round = 5 THEN <<s.public_key>> ELSE <<>>

(***************************************************************************)
(* RefreshParticipant: the participant of proactive secret sharing, which  *)
(* deals the secret zero.  Its round1 is the one of the secret participant *)
(* (both hold the same components); rounds 2 to 5 are its own.             *)
(***************************************************************************)
\* RefreshParticipant::initialize: the checks on what was dealt, and the
\* participant when they pass
RefreshParticipant_initialize(id, t, n, poly, bpoly) ==
    LET components == split_secret(poly, bpoly, t, n)
        s == [id |-> id,
              type |-> "Refresh",
              threshold |-> t,
              limit |-> n,
              components |-> components,
              round |-> 1,
              valid_participant_ids |-> {},
              secret_share |-> 0,
              public_key |-> identity,
              round1_p2p_data |-> EmptyMap,
              round1_broadcast_data |-> EmptyMap]
    IN IF is_identity(blinder_generator) \/ is_identity(message_generator)
       THEN Err(s, InitializationError("Invalid generators"))
       ELSE IF \/ \E j \in 2 .. Len(components.pedersen_commitments) :
                     is_identity(components.pedersen_commitments[j])
               \/ \E j \in 2 .. Len(components.feldman_commitments) :
                     is_identity(components.feldman_commitments[j])
               \/ ~is_identity(components.pedersen_commitments[1])
               \/ ~is_identity(components.feldman_commitments[1])
       THEN Err(s, InitializationError("Invalid commitments"))
       ELSE IF \E i \in 1 .. n : \/ components.secret_shares[i].value = 0
                                 \/ components.blind_shares[i].value = 0
       THEN Err(s, InitializationError("Invalid shares"))
       ELSE Ok(s, {})

\* RefreshParticipant::new: the secret is zero, the blinder is drawn by the
\* RNG; the further coefficients are fixed per participant
RefreshParticipant_new(id, t, n, blinder) ==
    RefreshParticipant_initialize(id, t, n, refresh_secret_polynomial(id - 1),
                                  <<blinder>> \o Tail(blinder_polynomial(id - 1)))

\* round2 of the refresh participant: the loop runs over the union of the
\* keys and skips what it cannot verify, so each sender counts on its own
RefreshParticipant_round2(s, broadcast_data, p2p_data) ==
    IF s.round # 2
    THEN Err(s, RoundError(2, "Invalid Round"))
    ELSE IF DOMAIN broadcast_data = {}
    THEN Err(s, RoundError(2, "Missing broadcast data from other participants"))
    ELSE IF DOMAIN p2p_data = {}
    THEN Err(s, RoundError(2, "Missing peer-to-peer data from other participants"))
    ELSE IF Cardinality(DOMAIN broadcast_data) < s.threshold
    THEN Err(s, RoundError(2, "Not enough secret_participant data"))
    ELSE
    LET og == s.components.secret_shares[s.id].value
        valid == {pid \in DOMAIN broadcast_data \cap DOMAIN p2p_data :
                     LET bdata == broadcast_data[pid]
                         p2p == p2p_data[pid]
                     IN /\ bdata.blinder_generator = blinder_generator
                        /\ bdata.message_generator = message_generator
                        /\ Len(bdata.pedersen_commitments) = s.threshold
                        /\ \A j \in 2 .. Len(bdata.pedersen_commitments) :
                               ~is_identity(bdata.pedersen_commitments[j])
                        /\ is_identity(bdata.pedersen_commitments[1])
                        /\ p2p.secret_share.value # 0
                        /\ p2p.blind_share.value # 0
                        /\ pedersen_verify(bdata.pedersen_commitments, p2p.secret_share,
                                           p2p.blind_share)}
        s1 == [s EXCEPT !.valid_participant_ids = valid,
                        !.secret_share =
                            ScalarAdd(og, SumOver([pid \in valid |->
                                                      p2p_data[pid].secret_share.value],
                                                  valid))]
        s2 == [s1 EXCEPT !.valid_participant_ids = @ \cup {s.id}]
    IN IF s1.secret_share = 0 \/ s1.secret_share = og
       THEN Err(s1, RoundError(2, "The resulting secret key share is invalid"))
       ELSE IF Cardinality(s2.valid_participant_ids) < s.threshold
       THEN Err(s2, RoundError(2, "Not enough valid participants, below the threshold"))
       ELSE [st |-> [s2 EXCEPT !.round = 3,
                               !.round1_p2p_data = p2p_data,
                               !.round1_broadcast_data = broadcast_data],
             res |-> NoError,
             out |-> [valid_participant_ids |-> s2.valid_participant_ids]]

\* round3 of the refresh participant: echoes of unknown senders are skipped
RefreshParticipant_round3(s, echo_data) ==
    IF s.round # 3
    THEN Err(s, RoundError(3, "Invalid Round."))
    ELSE IF DOMAIN echo_data = {}
    THEN Err(s, RoundError(3, "Missing broadcast data from other participants. Echo data is empty"))
    ELSE IF Cardinality(DOMAIN echo_data) < s.threshold
    THEN Err(s, RoundError(3, "Missing broadcast data from other participants. Non-sufficient echo data provided."))
    ELSE IF \E id \in (DOMAIN echo_data \cap s.valid_participant_ids) \ {s.id} :
                s.valid_participant_ids \ echo_data[id].valid_participant_ids # {}
    THEN Err(s, RoundError(3, "Received data from malicious participant. Valid sets don't match."))
    ELSE [st |-> [s EXCEPT !.round = 4],
          res |-> NoError,
          out |-> [message_generator |-> message_generator,
                   commitments |-> s.components.feldman_commitments]]

\* the loop of the refresh participant's round4, from entry k of keys on
RECURSIVE refresh_round4_loop(_, _, _, _)
refresh_round4_loop(s, keys, broadcast_data, k) ==
    IF k > Len(keys) THEN [st |-> s, res |-> NoError]
    ELSE
    LET id == keys[k]
        bdata == broadcast_data[id]
        removed == [s EXCEPT !.valid_participant_ids = @ \ {id}]
    IN IF s.id = id \/ id \notin s.valid_participant_ids
       THEN refresh_round4_loop(s, keys, broadcast_data, k + 1)
       ELSE IF id \notin DOMAIN s.round1_p2p_data \/ id \notin DOMAIN s.round1_broadcast_data
       THEN refresh_round4_loop(removed, keys, broadcast_data, k + 1)
       ELSE IF \/ message_generator # bdata.message_generator
               \/ s.round1_broadcast_data[id].message_generator # bdata.message_generator
       THEN refresh_round4_loop(removed, keys, broadcast_data, k + 1)
       ELSE IF \/ \E j \in 2 .. Len(bdata.commitments) : is_identity(bdata.commitments[j])
               \/ ~is_identity(bdata.commitments[1])
       THEN refresh_round4_loop(removed, keys, broadcast_data, k + 1)
       ELSE IF ~feldman_verify_share(bdata.message_generator, bdata.commitments,
                                     s.round1_p2p_data[id].secret_share)
       THEN refresh_round4_loop(removed, keys, broadcast_data, k + 1)
       ELSE IF Cardinality(s.valid_participant_ids) < s.threshold
       THEN [st |-> s, res |-> RoundError(4, "Not enough valid participants to continue")]
       ELSE refresh_round4_loop([s EXCEPT !.public_key = PointAdd(@, bdata.commitments[1])],
                                keys, broadcast_data, k + 1)

\* round4 of the refresh participant: the summed key must be the identity
\* and must differ from og, the participant's own first commitment
RefreshParticipant_round4(s, broadcast_data) ==
    IF s.round # 4
    THEN Err(s, RoundError(4, "Invalid Round"))
    ELSE IF DOMAIN broadcast_data = {}
    THEN Err(s, RoundError(4, "Missing broadcast data from other participants. Broadcast data is empty"))
    ELSE IF Cardinality(DOMAIN broadcast_data) < s.threshold
    THEN Err(s, RoundError(4, "Missing broadcast data from other participants. Non-sufficient data provided."))
    ELSE
    LET og == s.components.feldman_commitments[1]
        l == refresh_round4_loop([s EXCEPT !.public_key = og],
                                 SortedKeys(DOMAIN broadcast_data), broadcast_data, 1)
    IN IF ~l.res.ok THEN Err(l.st, l.res)
       ELSE IF ~is_identity(l.st.public_key) \/ l.st.public_key = og
       THEN Err(l.st, RoundError(4, "Invalid public key"))
       ELSE [st |-> [l.st EXCEPT !.round = 5],
             res |-> NoError,
             out |-> [public_key |-> l.st.public_key]]

\* round5 of the refresh participant: senders it does not know are skipped
RefreshParticipant_round5(s, broadcast_data) ==
    IF s.round # 5
    THEN Err(s, RoundError(5, "Invalid Round."))
    ELSE IF DOMAIN broadcast_data = {}
    THEN Err(s, RoundError(5, "Missing broadcast data from other participants. Broadcast data is empty"))
    ELSE IF Cardinality(DOMAIN broadcast_data) < s.threshold
    THEN Err(s, RoundError(5, "Missing broadcast data from other participants. Non-sufficient data provided."))
    ELSE IF \E id \in (DOMAIN broadcast_data \cap s.valid_participant_ids) \ {s.id} :
                /\ id \in DOMAIN s.round1_p2p_data
                /\ id \in DOMAIN s.round1_broadcast_data
                /\ broadcast_data[id].public_key # s.public_key
    THEN Err(s, RoundError(5, "Public key does not match."))
    ELSE Ok(s, {})

(***************************************************************************)
(* The harness that drives the explicit-round participants, as the tests   *)
(* do: it collects what each round returned and hands every participant    *)
(* the maps for its next round.  The participant BAD_ID may be corrupted:  *)
(* what it contributes is then drawn from a menu and may differ from one   *)
(* recipient to the next.                                                  *)
(***************************************************************************)
Honest == Ids \ {BAD_ID}

OldInit(ids, t, n) ==
    /\ ps = [i \in ids |-> SecretParticipant_new(i, t, n)]
    /\ net = [round1 |-> {}, echo |-> EmptyMap, round3 |-> {}, pk |-> EmptyMap, done |-> {}]
    /\ olast = [id |-> 0, op |-> 0, res |-> NoError]
    /\ p = initialize(Self)
    /\ last = [op |-> "new", tag |-> 0, res |-> NoError, out |-> {}]

\* the parameters the participants were constructed with, and all ids
Parameters ==
    LET i == CHOOSE i \in DOMAIN ps : TRUE
    IN  [threshold |-> ps[i].threshold, limit |-> ps[i].limit]

AllIds == 1 .. Parameters.limit

\* the participant that may be corrupted: the one with the highest id
BadId == Parameters.limit

\* what participant j returned from round1 and returns from round3
Round1Output(j) == SecretParticipant_round1([ps[j] EXCEPT !.round = 1]).out

Round3BroadcastData(j) ==
    [message_generator |-> message_generator,
     commitments |-> ps[j].components.feldman_commitments]

\* the corrupted participant's dealings under every choice of parameters:
\* the one of SecretParticipant::new, and a coherent dealing of another
\* polynomial
BadDealings ==
    [t \in 1 .. THRESHOLD |-> [n \in 1 .. LIMIT |-> [v \in {"dealt", "other"} |->
        SecretParticipant_initialize(
            n, t, n,
            IF v = "other" THEN alt_secret_polynomial(n - 1) ELSE secret_polynomial(n - 1),
            blinder_polynomial(n - 1))]]]

BadParticipant(v) ==
    BadDealings[Parameters.threshold][Parameters.limit][IF v = "other" THEN v ELSE "dealt"]

\* the corrupted participant's round 1 data: as dealt, or with every
\* Pedersen commitment replaced by the identity, or the other dealing
BadRound1Variants == {"dealt", "identity", "other"}

BadRound1BroadcastData(v) ==
    IF v = "identity"
    THEN Round1BroadcastData([j \in 1 .. Parameters.threshold |-> identity])
    ELSE SecretParticipant_round1(BadParticipant(v)).out.bdata

BadRound1P2PData(v, dst) == SecretParticipant_round1(BadParticipant(v)).out.p2p[dst]

\* its echo of the valid set: every id, or only itself
BadEchoVariants == {AllIds, {BadId}}

\* its round 3 broadcast: the Feldman commitments as dealt, or those of
\* the other dealing
BadRound3Variants == {"dealt", "other"}

BadRound3BroadcastData(v) ==
    [message_generator |-> message_generator,
     commitments |-> BadParticipant(v).components.feldman_commitments]

\* its echo of the public key: the recipient's own key, or another
BadPublicKeys(s) == {s.public_key, PointAdd(s.public_key, 1)}

\* one call of a round function on participant i; the harness keeps what
\* the call returned
OldCall(i, k, r) ==
    /\ ps' = [ps EXCEPT ![i] = r.st]
    /\ olast' = [id |-> i, op |-> k, res |-> r.res]
    /\ net' = IF ~r.res.ok THEN net
              ELSE CASE k = 1 -> [net EXCEPT !.round1 = @ \cup {i}]
                     [] k = 2 -> [net EXCEPT !.echo = Insert(@, i, r.out)]
                     [] k = 3 -> [net EXCEPT !.round3 = @ \cup {i}]
                     [] k = 4 -> [net EXCEPT !.pk = Insert(@, i, r.out)]
                     [] OTHER -> [net EXCEPT !.done = @ \cup {i}]
    /\ UNCHANGED <<p, last>>

\* what the corrupted participant does in one call: it sends one of its
\* variants, or it withholds
BadChoices(variants) ==
    {<<TRUE, v>> : v \in variants} \cup {<<FALSE, CHOOSE v \in variants : TRUE>>}

\* the senders of one call: every uncorrupted participant that has produced
\* the output so far, and the corrupted one unless it withholds
SenderSet(candidates, produced, b) ==
    (candidates \cap produced \cap DOMAIN ps)
        \cup (IF b[1] THEN candidates \ DOMAIN ps ELSE {})

Round1Maps(i, S, v) ==
    [bdata |-> [j \in S |-> IF j \in DOMAIN ps THEN Round1Output(j).bdata
                            ELSE BadRound1BroadcastData(v)],
     p2p |-> [j \in S |-> IF j \in DOMAIN ps THEN Round1Output(j).p2p[i]
                          ELSE BadRound1P2PData(v, i)]]

EchoMap(S, e) ==
    [j \in S |-> IF j \in DOMAIN ps THEN net.echo[j] ELSE [valid_participant_ids |-> e]]

Round3Map(S, v) ==
    [j \in S |-> IF j \in DOMAIN ps THEN Round3BroadcastData(j)
                 ELSE BadRound3BroadcastData(v)]

PublicKeyMap(S, k) ==
    [j \in S |-> IF j \in DOMAIN ps THEN net.pk[j] ELSE [public_key |-> k]]

Round1Call(i) ==
    \E r \in {SecretParticipant_round1(ps[i])} : OldCall(i, 1, r)

Round2Call(i, b) ==
    \E m \in {Round1Maps(i, SenderSet(AllIds \ {i}, net.round1, b), b[2])} :
        \E r \in {IF ps[i].type = "Refresh"
                  THEN RefreshParticipant_round2(ps[i], m.bdata, m.p2p)
                  ELSE SecretParticipant_round2(ps[i], m.bdata, m.p2p)} : OldCall(i, 2, r)

Round3Call(i, b) ==
    \E m \in {EchoMap(SenderSet(AllIds, DOMAIN net.echo, b), b[2])} :
        \E r \in {IF ps[i].type = "Refresh"
                  THEN RefreshParticipant_round3(ps[i], m)
                  ELSE SecretParticipant_round3(ps[i], m)} : OldCall(i, 3, r)

Round4Call(i, b) ==
    \E m \in {Round3Map(SenderSet(AllIds, net.round3, b), b[2])} :
        \E r \in {IF ps[i].type = "Refresh"
                  THEN RefreshParticipant_round4(ps[i], m)
                  ELSE SecretParticipant_round4(ps[i], m)} : OldCall(i, 4, r)

Round5Call(i, b) ==
    \E m \in {PublicKeyMap(SenderSet(AllIds, DOMAIN net.pk, b), b[2])} :
        \E r \in {IF ps[i].type = "Refresh"
                  THEN RefreshParticipant_round5(ps[i], m)
                  ELSE SecretParticipant_round5(ps[i], m)} : OldCall(i, 5, r)

\* the harness may call any round on any participant at any time
CallRound1 == \E i \in DOMAIN ps : Round1Call(i)

CallRound2 == \E i \in DOMAIN ps : \E b \in BadChoices(BadRound1Variants) : Round2Call(i, b)

CallRound3 == \E i \in DOMAIN ps : \E b \in BadChoices(BadEchoVariants) : Round3Call(i, b)

CallRound4 == \E i \in DOMAIN ps : \E b \in BadChoices(BadRound3Variants) : Round4Call(i, b)

CallRound5 == \E i \in DOMAIN ps : \E b \in BadChoices(BadPublicKeys(ps[i])) : Round5Call(i, b)

NextOld ==
    \/ CallRound1
    \/ CallRound2
    \/ CallRound3
    \/ CallRound4
    \/ CallRound5

\* every participant is required (limit = threshold) and the one with the
\* highest id is corrupted
FullThresholdInit == OldInit(1 .. THRESHOLD - 1, THRESHOLD, THRESHOLD)

SpecOld == (OldInit(Honest, THRESHOLD, LIMIT) \/ FullThresholdInit) /\ [][NextOld]_vars

(***************************************************************************)
(* The harness of the tests: every participant runs each round once, and   *)
(* a round is run only when every participant's output of the round before *)
(* is there.  Either all LIMIT participants are driven, or participant     *)
(* BAD_ID is corrupted as in one_corrupted_party: its Pedersen commitments *)
(* are the identity, and nothing of it is passed on after round 1.         *)
(***************************************************************************)
\* a single participant: threshold = limit = 1
SingleInit == OldInit(1 .. 1, 1, 1)

\* the share participant i holds after the run of all LIMIT participants
FirstEpochShare(i) ==
    SumOver([j \in Ids |-> EvalPoly(secret_polynomial(j - 1), i)], Ids)

\* the next epoch: participant BAD_ID is removed, the others reshare what
\* they hold among themselves with with_secret
ReshareInit ==
    /\ ps = [i \in Honest |->
                Participant_with_secret(i, THRESHOLD, LIMIT - 1, FirstEpochShare(i),
                                        SortedKeys(Honest))]
    /\ net = [round1 |-> {}, echo |-> EmptyMap, round3 |-> {}, pk |-> EmptyMap, done |-> {}]
    /\ olast = [id |-> 0, op |-> 0, res |-> NoError]
    /\ p = initialize(Self)
    /\ last = [op |-> "new", tag |-> 0, res |-> NoError, out |-> {}]

\* the blinders the RNG may hand to RefreshParticipant::new
Blinders == {0, 1}

\* a refresh run: LIMIT - 1 refresh participants, each constructed with a
\* blinder that RefreshParticipant::initialize accepts
RefreshInit ==
    \E blinder \in Blinders :
        /\ \A i \in Honest : RefreshParticipant_new(i, THRESHOLD, LIMIT - 1, blinder).res.ok
        /\ ps = [i \in Honest |-> RefreshParticipant_new(i, THRESHOLD, LIMIT - 1, blinder).st]
        /\ net = [round1 |-> {}, echo |-> EmptyMap, round3 |-> {}, pk |-> EmptyMap, done |-> {}]
        /\ olast = [id |-> 0, op |-> 0, res |-> NoError]
        /\ p = initialize(Self)
        /\ last = [op |-> "new", tag |-> 0, res |-> NoError, out |-> {}]

LiveInit ==
    \/ OldInit(Ids, THRESHOLD, LIMIT)
    \/ OldInit(Honest, THRESHOLD, LIMIT)
    \/ SingleInit
    \/ ReshareInit
    \/ RefreshInit

Corrupted == <<TRUE, "identity">>

Silent(variants) == <<FALSE, CHOOSE v \in variants : TRUE>>

LiveRound1 == \E i \in DOMAIN ps : ps[i].round = 1 /\ Round1Call(i)

LiveRound2 ==
    \E i \in DOMAIN ps :
        /\ ps[i].round = 2
        /\ net.round1 = DOMAIN ps
        /\ Round2Call(i, Corrupted)

LiveRound3 ==
    \E i \in DOMAIN ps :
        /\ ps[i].round = 3
        /\ DOMAIN net.echo = DOMAIN ps
        /\ Round3Call(i, Silent(BadEchoVariants))

LiveRound4 ==
    \E i \in DOMAIN ps :
        /\ ps[i].round = 4
        /\ net.round3 = DOMAIN ps
        /\ Round4Call(i, Silent(BadRound3Variants))

LiveRound5 ==
    \E i \in DOMAIN ps :
        /\ ps[i].round = 5
        /\ i \notin net.done
        /\ DOMAIN net.pk = DOMAIN ps
        /\ Round5Call(i, Silent(BadPublicKeys(ps[i])))

NextLive ==
    \/ LiveRound1
    \/ LiveRound2
    \/ LiveRound3
    \/ LiveRound4
    \/ LiveRound5

SpecLive == LiveInit /\ [][NextLive]_vars /\ WF_vars(NextLive)

(***************************************************************************)
(* Properties of the explicit-round participants                           *)
(***************************************************************************)
\* the secret that the shares held by the participants in S interpolate to
RECURSIVE combine_loop(_, _)
combine_loop(keys, shares_ids) ==
    IF keys = <<>> THEN 0
    ELSE ScalarAdd(ScalarMul(ps[Head(keys)].secret_share, lagrange(Head(keys), shares_ids)),
                   combine_loop(Tail(keys), shares_ids))

combine_shares(S) == combine_loop(SortedKeys(S), SortedKeys(S))

Round1Repeated(i) == ~SecretParticipant_round1(ps[i]).res.ok

Round2Repeated(i) ==
    \A b \in BadChoices(BadRound1Variants) :
        LET m == Round1Maps(i, SenderSet(AllIds \ {i}, net.round1, b), b[2])
        IN  ~SecretParticipant_round2(ps[i], m.bdata, m.p2p).res.ok

Round3Repeated(i) ==
    \A b \in BadChoices(BadEchoVariants) :
        ~SecretParticipant_round3(ps[i], EchoMap(SenderSet(AllIds, DOMAIN net.echo, b), b[2])).res.ok

Round4Repeated(i) ==
    \A b \in BadChoices(BadRound3Variants) :
        ~SecretParticipant_round4(ps[i], Round3Map(SenderSet(AllIds, net.round3, b), b[2])).res.ok

\* C9: once round1, round2, round3 or round4 has succeeded for a
\* participant, calling the same round again on it returns an error,
\* whatever it is given.
C9_RoundNotExecutedTwice ==
    \A i \in DOMAIN ps :
        /\ i \in net.round1 => Round1Repeated(i)
        /\ i \in DOMAIN net.echo => Round2Repeated(i)
        /\ i \in net.round3 => Round3Repeated(i)
        /\ i \in DOMAIN net.pk => Round4Repeated(i)

\* a participant that had finished round 1 was asked to run it again, and
\* one that had finished round 4 as well
C9_Witness ==
    /\ olast.op = 1
    /\ olast.id \in net.round1
    /\ olast.res = RoundError(1, "Invalid Round")
    /\ \E j \in DOMAIN net.pk : ps[j].round = 5

\* C1: any two participants that have reached round Five hold the same
\* public key.
C1_AgreementAtRoundFive ==
    \A i, j \in DOMAIN ps :
        ps[i].round = 5 /\ ps[j].round = 5 => ps[i].public_key = ps[j].public_key

\* C2: the shares of any THRESHOLD participants whose round5 succeeded
\* interpolate to the discrete logarithm of the public key they hold.
C2_SharesInterpolateToPublicKey ==
    \A S \in SUBSET net.done :
        Cardinality(S) = THRESHOLD =>
            \A i \in S : PointMul(message_generator, combine_shares(S)) = ps[i].public_key

\* the sum of the secrets dealt by the participants in S
RECURSIVE DealtSecret(_)
DealtSecret(S) ==
    IF S = {} THEN 0
    ELSE LET i == CHOOSE x \in S : TRUE
         IN ScalarAdd(secret_polynomial(i - 1)[1], DealtSecret(S \ {i}))

Terminated(S) ==
    \A i \in S :
        /\ ps[i].round = 5
        /\ i \in net.done
        /\ get_public_key(ps[i]) = <<PointMul(message_generator, DealtSecret(S))>>

\* C4: when all LIMIT participants are driven and every output is handed
\* on, every participant ends in round Five, its round5 check passed, with
\* the public key message_generator * (sum of all dealt secrets).
C4_AllHonestTerminate == (DOMAIN ps = Ids) ~> Terminated(Ids)

C4_Witness == DOMAIN ps = Ids /\ Terminated(Ids)

\* participant BAD_ID of LIMIT is not driven
OneCorrupted == DOMAIN ps = Honest /\ Parameters.limit = LIMIT

\* C5: when participant BAD_ID sends Pedersen commitments that are the
\* identity, every other participant leaves it out of its valid set in
\* round 2, and they all end in round Five, their round5 checks passed, with
\* the public key of their own dealt secrets.
C5_CorruptedPeerDropped ==
    /\ [](OneCorrupted =>
            \A i \in Honest : ps[i].round >= 3 => ps[i].valid_participant_ids = Honest)
    /\ OneCorrupted ~> Terminated(Honest)

C5_Witness ==
    /\ OneCorrupted
    /\ Terminated(Honest)
    /\ \A i \in Honest : BAD_ID \in DOMAIN ps[i].round1_broadcast_data
                         /\ BAD_ID \notin ps[i].valid_participant_ids

(***************************************************************************)
(* Further properties of the run()/receive() participant                   *)
(***************************************************************************)
\* the payloads of round k a transport can hand to the participant
Payloads(k) ==
    CASE k = 1 -> Round1Payloads
      [] k = 2 -> Round2Payloads
      [] k = 3 -> Round3Payloads(p)
      [] OTHER -> Round4Payloads(p)

AlreadySent(k) == RoundError(k, "Sender has already sent data")

\* C11: for every round k (1, 2, 3) and sender, once an entry of the sender
\* is stored for round k, every further round k payload of that sender is
\* rejected and nothing stored changes
C11_DuplicateRejected ==
    \A k \in 1 .. 3 :
        \A d \in Payloads(k) :
            d.sender_ordinal \in DOMAIN received(p, k) =>
                /\ ~receive(p, k, d).res.ok
                /\ receive(p, k, d).st = p

\* a peer's round 2 payload is stored and a second one was just rejected as
\* a duplicate
C11_Witness ==
    /\ last.op = "receive"
    /\ last.tag = 2
    /\ last.res = AlreadySent(2)
    /\ \E o \in Peers : o \in DOMAIN p.received_round2_data

\* C12: a payload is accepted only if its sender_ordinal is registered, its
\* sender_id is the id registered at that ordinal, and its sender_id is
\* neither the receiver's id nor zero
C12_SenderIdIsRegisteredId ==
    \A k \in 1 .. 3 :
        \A d \in Payloads(k) :
            receive(p, k, d).res.ok =>
                /\ d.sender_ordinal \in DOMAIN all_participant_ids
                /\ d.sender_id = all_participant_ids[d.sender_ordinal]
                /\ d.sender_id # p.id
                /\ d.sender_id # 0

\* Participant::get_secret_share / get_public_key of the run()/receive()
\* participant
Participant_get_secret_share(s) == IF s.round >= 2 THEN <<s.secret_share>> ELSE <<>>

Participant_get_public_key(s) == IF s.round = 5 THEN <<s.public_key>> ELSE <<>>

\* C15: get_secret_share() and get_public_key() return None in every round
\* before Five
C15_GettersTerminalOnly ==
    p.round < 5 =>
        /\ Participant_get_secret_share(p) = <<>>
        /\ Participant_get_public_key(p) = <<>>

(***************************************************************************)
(* Further properties of the explicit-round participants                   *)
(***************************************************************************)
\* C14: a participant is in round Five with get_secret_share and
\* get_public_key returning Some only after its round5 check has accepted
\* the public keys of its valid participants
C14_RoundFiveOnlyAfterKeysAccepted ==
    \A i \in DOMAIN ps :
        (/\ ps[i].round = 5
         /\ get_secret_share(ps[i]) # <<>>
         /\ get_public_key(ps[i]) # <<>>) => i \in net.done

PublicKeyMismatch == RoundError(5, "Public key does not match.")

\* the maps of public keys round5 can be given for participant i
PublicKeyMaps(i) ==
    {PublicKeyMap(SenderSet(AllIds, DOMAIN net.pk, b), b[2]) :
        b \in BadChoices(BadPublicKeys(ps[i]))}

\* C16: round5 rejects a map in which the public key of another participant
\* differs from the receiver's own, and the mismatch is fatal: once round5
\* has returned it, no later call on that participant succeeds
C16_MismatchRejectedAndFatal ==
    [][/\ \A i \in DOMAIN ps : \A m \in PublicKeyMaps(i) :
              (\E j \in DOMAIN m \ {i} : m[j].public_key # ps[i].public_key)
                  => ~SecretParticipant_round5(ps[i], m).res.ok
       /\ (olast.op = 5 /\ olast.res = PublicKeyMismatch /\ olast'.id = olast.id)
              => ~olast'.res.ok]_vars

\* the share a participant deals to itself at construction
own_contribution(s) == s.components.secret_shares[s.id].value

\* C13: a participant in round Five holds a public key that is not the
\* identity and a secret share that differs from its own contribution
C13_RoundFiveNotDegenerate ==
    \A i \in DOMAIN ps :
        ps[i].round = 5 =>
            /\ ~is_identity(ps[i].public_key)
            /\ ps[i].secret_share # own_contribution(ps[i])

\* the errors of a participant left with too few peers
InsufficientParticipants ==
    {RoundError(2, "Missing broadcast data from other participants"),
     RoundError(2, "Not enough participant data"),
     RoundError(2, "Not enough valid participants, below the threshold"),
     RoundError(4, "Not enough valid participants to continue")}

Single == Parameters.threshold = 1 /\ Parameters.limit = 1

\* C18: with threshold = limit = 1 the single participant is constructed,
\* none of its rounds fails, and it ends in round Five, its round5 check
\* passed, with the public key message_generator * (its dealt secret)
C18_SingleParticipantTerminates ==
    /\ [](Single => olast.res.ok)
    /\ Single ~> Terminated(DOMAIN ps)

Reshared ==
    /\ Parameters.limit = LIMIT - 1
    /\ \A i \in DOMAIN ps : ps[i].type = "Secret"

\* C20: after the participants of the first epoch other than BAD_ID have
\* reshared with with_secret, the public key every one of them holds in
\* round Five is the public key of the first epoch, and the shares of any
\* threshold of them whose round5 succeeded interpolate to its secret
C20_ResharePreservesKey ==
    Reshared =>
        /\ \A i \in DOMAIN ps :
               ps[i].round = 5 =>
                   ps[i].public_key = PointMul(message_generator, DealtSecret(Ids))
        /\ \A S \in SUBSET net.done :
               Cardinality(S) = Parameters.threshold => combine_shares(S) = DealtSecret(Ids)

AllRefresh == \A i \in DOMAIN ps : ps[i].type = "Refresh"

\* C19: in a run where every participant is a refresh participant, no round
\* of any participant fails, and every participant ends in round Five, its
\* round5 check passed, with the identity as public key and the secret
\* share zero
C19_RefreshOnlyRunTerminates ==
    /\ [](AllRefresh => olast.res.ok)
    /\ AllRefresh ~> \A i \in DOMAIN ps : /\ ps[i].round = 5
                                          /\ i \in net.done
                                          /\ is_identity(ps[i].public_key)
                                          /\ ps[i].secret_share = 0

(***************************************************************************)
(* Construction of the run()/receive() participant: Participant::new with  *)
(* every Parameters value a caller can build                               *)
(***************************************************************************)
MaxThreshold == 3

MaxLimit == 3

\* Parameters::new (threshold and limit are NonZeroUsize, the generators are
\* the caller's choice) and Parameters::default
Parameters_new(t, n, mg, bg) ==
    [threshold |-> t, limit |-> n, message_generator |-> mg, blinder_generator |-> bg]

Parameters_default == Parameters_new(0, 0, identity, identity)

ParameterChoices ==
    {Parameters_new(t, n, mg, bg) : t \in 1 .. MaxThreshold, n \in 1 .. MaxLimit,
                                    mg \in 0 .. 2, bg \in 0 .. 2}
    \cup {Parameters_default}

\* there is no participant when construction returned an error
NoParticipant == [round |-> 0]

\* Participant::new without the tests of the two generators
new_without_generator_checks(type, id, parameters) ==
    IF parameters.threshold > parameters.limit
    THEN Err(NoParticipant, InitializationError("Threshold greater than limit"))
    ELSE IF parameters.threshold < 1
    THEN Err(NoParticipant, InitializationError("Threshold less than 1"))
    ELSE IF parameters.threshold < 2
    THEN Err(NoParticipant, IndexOutOfBounds)
    ELSE Ok([initialize(0) EXCEPT !.id = id, !.type = type], {})

\* Participant::new -> Participant::initialize: the tests of the parameters,
\* the dealing (coefficient j of the secret polynomial is j * (ordinal + 1),
\* of the blinder polynomial j * (ordinal + 2); the secret is 0 for Refresh),
\* the ordinal of id among the sequential ids 1 .. limit (0 when id is not
\* one of them), and the tests of the commitments
Participant_new(type, id, parameters) ==
    LET t == parameters.threshold
        ordinal == IF id \in 1 .. parameters.limit THEN id - 1 ELSE 0
        secret_coefficients ==
            [j \in 1 .. t |-> IF j = 1 /\ type = "Refresh" THEN 0
                              ELSE ScalarMul(j, ordinal + 1)]
        blinder_coefficients == [j \in 1 .. t |-> ScalarMul(j, ordinal + 2)]
        feldman == [j \in 1 .. t |->
                       PointMul(parameters.message_generator, secret_coefficients[j])]
        pedersen == [j \in 1 .. t |->
                        PointAdd(feldman[j],
                                 PointMul(parameters.blinder_generator,
                                          blinder_coefficients[j]))]
    IN IF t > parameters.limit
       THEN Err(NoParticipant, InitializationError("Threshold greater than limit"))
       ELSE IF t < 1
       THEN Err(NoParticipant, InitializationError("Threshold less than 1"))
       ELSE IF is_identity(parameters.message_generator)
       THEN Err(NoParticipant, InitializationError("Invalid message generator"))
       ELSE IF is_identity(parameters.blinder_generator)
       THEN Err(NoParticipant, InitializationError("Invalid blinder generator"))
       ELSE IF ordinal \notin 0 .. parameters.limit - 1
       THEN Err(NoParticipant, InitializationError("Id not found in participant ids"))
       ELSE IF t < 2
       THEN Err(NoParticipant, IndexOutOfBounds)
       ELSE IF \/ \E j \in 1 .. t : is_identity(pedersen[j])
               \/ \E j \in 2 .. t : is_identity(feldman[j])
               \/ ~check_feldman_verifier(type, feldman[1])
       THEN Err(NoParticipant, InitializationError("Invalid commitments"))
       ELSE Ok([ordinal |-> ordinal,
                id |-> id,
                type |-> type,
                threshold |-> t,
                limit |-> parameters.limit,
                message_generator |-> parameters.message_generator,
                blinder_generator |-> parameters.blinder_generator,
                feldman_verifier_set |-> feldman,
                pedersen_verifier_set |-> pedersen,
                round |-> 1,
                received_round1_data |-> EmptyMap,
                received_round2_data |-> EmptyMap,
                received_round3_data |-> EmptyMap,
                received_round4_data |-> EmptyMap,
                valid_participant_ids |-> EmptyMap,
                transcript |-> << <<"gennaro-dkg v1.0.0">> >>,
                secret_share |-> 0,
                public_key |-> identity],
               {})

\* participant/round1.rs, round1_ready: the map participant.rs calls
\* received_round0_data, empty at construction (participant.rs:270), is the
\* record's received_round1_data
round1_ready(s) ==
    s.round = 1 /\ Cardinality(DOMAIN s.received_round1_data) >= s.threshold

\* Participant::run as participant.rs writes it, on the participant that
\* Participant::new returns.  participant.rs counts the steps from round0:
\* run() calls round0, the commitment round, for Round::Zero and round1, the
\* step behind round1_ready, for Round::One, and initialize leaves the
\* participant in Round::One.  (The operators round1 .. round4 above follow
\* the labels of data.rs, where the commitment round is Round::One.)
Participant_run(s) ==
    IF ~round1_ready(s)
    THEN Err(s, RoundError(1, "round not ready, haven't received enough data from other participants"))
    ELSE round2([s EXCEPT !.round = 2])

NewInit ==
    /\ p = NoParticipant
    /\ last = [op |-> "none", tag |-> 0, res |-> NoError, out |-> {}]
    /\ OldInitial

\* one call of Participant::new; last records its arguments and its result
New ==
    \E type \in {"Secret", "Refresh"}, id \in 0 .. MaxLimit + 1,
       parameters \in ParameterChoices :
        LET r == Participant_new(type, id, parameters)
        IN  /\ p' = r.st
            /\ last' = [op |-> "new", tag |-> 0, res |-> r.res, out |-> {},
                        type |-> type, id |-> id, parameters |-> parameters]
            /\ UNCHANGED <<ps, net, olast>>

\* the first run() of the participant just constructed
FirstRun ==
    /\ last.op = "new"
    /\ p # NoParticipant
    /\ LET r == Participant_run(p)
       IN  /\ p' = r.st
           /\ last' = [op |-> "run", tag |-> 1, res |-> r.res, out |-> r.out]
    /\ UNCHANGED <<ps, net, olast>>

NextNew == New \/ FirstRun

SpecNew == NewInit /\ [][NextNew]_vars

InvalidParameters ==
    {InitializationError("Threshold greater than limit"),
     InitializationError("Threshold less than 1"),
     InitializationError("Invalid message generator"),
     InitializationError("Invalid blinder generator")}

\* C21: Participant::new returns an invalid-parameters error, and no
\* participant, when the threshold is less than 1, when it is greater than
\* the limit, or when either generator is the identity
C21_InvalidParametersRejected ==
    (/\ last.op = "new"
     /\ \/ last.parameters.threshold < 1
        \/ last.parameters.threshold > last.parameters.limit
        \/ is_identity(last.parameters.message_generator)
        \/ is_identity(last.parameters.blinder_generator))
    => last.res \in InvalidParameters /\ p = NoParticipant

\* a call with an acceptable threshold and limit and the identity as blinder
\* generator was refused
C21_Witness ==
    /\ last.op = "new"
    /\ last.parameters.threshold \in 2 .. last.parameters.limit
    /\ ~is_identity(last.parameters.message_generator)
    /\ is_identity(last.parameters.blinder_generator)
    /\ last.res = InitializationError("Invalid blinder generator")

\* C22: Participant::new returns an invalid-parameters error, and no
\* participant, when the message generator and the blinder generator are
\* the same point
C22_EqualGeneratorsRejected ==
    (/\ last.op = "new"
     /\ last.parameters.message_generator = last.parameters.blinder_generator)
    => ~last.res.ok /\ p = NoParticipant

(***************************************************************************)
(* Further properties of the run()/receive() participant                   *)
(***************************************************************************)
\* C23: the output of a successful run() never holds an entry addressed to
\* the sender's own ordinal
C23_NoOutputToSelf ==
    (last.op = "run" /\ last.res.ok) => p.ordinal \notin last.out

\* round 3 ran: its output goes to the valid participants, of which the
\* sender is one, and it holds entries
C23_Witness ==
    /\ last.op = "run"
    /\ last.res.ok
    /\ p.round = 4
    /\ p.ordinal \in DOMAIN p.valid_participant_ids
    /\ last.out # {}

BadFormat == {PostcardError, InitializationError("Invalid round")}

\* C24: receive() on a malformed message (no bytes, a tag that is no round,
\* a body that does not decode) returns a format error and stores nothing
C24_MalformedRejected ==
    \A data \in MalformedMessages :
        /\ Participant_receive(p, data).res \in BadFormat
        /\ Participant_receive(p, data).st = p

\* the senders whose round k payload the step stored, the participant's own
\* entry (stored by run) aside
Accepted(k) == (DOMAIN received(p', k) \ DOMAIN received(p, k)) \ {p.ordinal}

\* C25: a payload of a peer is accepted only if the peer's payloads of every
\* earlier round were accepted before; the payload that carries the Feldman
\* commitments (round 3 of the code) only if the peer is, in addition, in
\* valid_participant_ids
C25_EarlierRoundsAccepted ==
    [][\A k \in {2, 3} : \A o \in Accepted(k) :
           /\ \A j \in 1 .. (k - 1) : o \in DOMAIN received(p, j)
           /\ k = 3 => o \in DOMAIN p.valid_participant_ids]_vars

\* a peer's payload with the Feldman commitments was accepted
C25_Witness ==
    /\ last.op = "receive"
    /\ last.tag = 3
    /\ last.res.ok
    /\ (DOMAIN p.received_round3_data) \ {p.ordinal} # {}

\* C26: a step that accepts a round 2 payload of a peer accepts it only when
\* the hash of the sender's type (as declared in round 1), ordinal, id, the
\* threshold and the revealed Pedersen commitments equals the Pedersen
\* commitment hash the sender sent in round 1
C26_RevealMatchesCommitment ==
    [][\A o \in Accepted(2) :
          /\ o \in DOMAIN p.received_round1_data
          /\ compute_pedersen_commitments_hash(
                 p.received_round1_data[o].sender_type, o,
                 p'.received_round2_data[o].sender_id, threshold,
                 p'.received_round2_data[o].pedersen_commitments)
             = p.received_round1_data[o].pedersen_commitment_hash]_vars

\* the reveal of a peer that committed to its second dealing was accepted
C26_Witness ==
    /\ last.op = "receive" /\ last.tag = 2 /\ last.res.ok
    /\ Bad \in DOMAIN p.received_round2_data
    /\ p.received_round1_data[Bad].pedersen_commitment_hash
       = CommitData(<<Bad, all_participant_ids[Bad]>>, AltPersona(Bad)).pedersen_commitment_hash

\* C27: every round 2 payload stored for a peer verifies at the receiver's
\* id: message_generator * secret_share + blinder_generator * blind_share is
\* the sum of the sender's Pedersen commitments weighted by the powers of
\* the receiver's id
C27_StoredSharesVerify ==
    \A o \in (DOMAIN p.received_round2_data) \ {p.ordinal} :
        PointAdd(PointMul(message_generator, p.received_round2_data[o].secret_share),
                 PointMul(blinder_generator, p.received_round2_data[o].blind_share))
        = sum_of_products(powers_of_i(p.id),
                          p.received_round2_data[o].pedersen_commitments)

C27_Witness ==
    /\ last.op = "receive" /\ last.tag = 2 /\ last.res.ok
    /\ Peers \subseteq DOMAIN p.received_round2_data

\* C28: every payload with Feldman commitments stored for a peer verifies at
\* the receiver's id against the share that peer sent in round 2:
\* message_generator * secret_share is the sum of the sender's Feldman
\* commitments weighted by the powers of the receiver's id
C28_StoredFeldmanVerifies ==
    \A o \in (DOMAIN p.received_round3_data) \ {p.ordinal} :
        /\ o \in DOMAIN p.received_round2_data
        /\ PointMul(message_generator, p.received_round2_data[o].secret_share)
           = sum_of_products(powers_of_i(p.id),
                             p.received_round3_data[o].feldman_commitments)

\* the Feldman commitments of a peer were stored, and Bad, which committed to
\* the Feldman commitments of another dealing than it shared, was refused
C28_Witness ==
    /\ last.op = "receive" /\ last.tag = 3
    /\ last.res = RoundError(3, "The share does not verify with the given commitments")
    /\ (DOMAIN p.received_round3_data) \ {p.ordinal} # {}

\* C29: valid_participant_ids is a subset of all_participant_ids: every
\* ordinal in it is registered, with the id it maps to
C29_ValidIdsAreRegistered ==
    \A o \in DOMAIN p.valid_participant_ids :
        /\ o \in DOMAIN all_participant_ids
        /\ p.valid_participant_ids[o] = all_participant_ids[o]

\* a round ends with this step: run() returns Ok
RoundEnds == last'.op = "run" /\ last'.res.ok

\* C30: membership of valid_participant_ids only shrinks between rounds:
\* apart from the own ordinal, the set at the end of a round has no ordinal
\* that was absent at the end of the round before
C30_ValidIdsOnlyShrink ==
    [][(RoundEnds /\ p.round >= 2) =>
          DOMAIN p'.valid_participant_ids \subseteq last.ended \cup {p.ordinal}]_vars

\* C30 (amended): from the end of round 3 on, membership of
\* valid_participant_ids only shrinks between rounds: apart from the own
\* ordinal, no peer absent from the set at the end of round 3 or of a later
\* round is in the set at the end of a later round
C30_ValidIdsOnlyShrinkAfterRound3 ==
    [][(RoundEnds /\ p.round >= 4) =>
          DOMAIN p'.valid_participant_ids \subseteq last.ended \cup {p.ordinal}]_vars

\* round 4 ended with fewer valid participants than round 3
C30_Witness ==
    /\ last.op = "run" /\ last.res.ok /\ p.round = 5
    /\ Bad \notin DOMAIN p.valid_participant_ids
    /\ Bad \in DOMAIN p.received_round2_data

(***************************************************************************)
(* Dropped peers, the computed key, and errors that leave the state alone  *)
(***************************************************************************)
HashMismatch(k) ==
    RoundError(k, IF k = 2 THEN "Pedersen commitment hash does not match"
                  ELSE "Feldman commitment hash does not match")

\* the payload comes from a peer under its registered id, and so did the
\* round 1 payload stored for that peer
FromRegisteredPeer(s, d) ==
    /\ d.sender_ordinal \in Peers
    /\ d.sender_id = all_participant_ids[d.sender_ordinal]
    /\ d.sender_ordinal \in DOMAIN s.received_round1_data
    /\ s.received_round1_data[d.sender_ordinal].sender_id = d.sender_id

\* C31: a peer whose revealed Pedersen or Feldman commitments do not hash to
\* what it committed to in round 1 is dropped: after the payload is refused
\* the peer is not in valid_participant_ids
C31_MismatchedPeerDropped ==
    \A k \in {2, 3} :
        \A d \in Payloads(k) :
            (FromRegisteredPeer(p, d) /\ receive(p, k, d).res = HashMismatch(k)) =>
                d.sender_ordinal \notin DOMAIN receive(p, k, d).st.valid_participant_ids

\* the sum of the shares that the participants in S sent to s in round 1
RECURSIVE SharesFrom(_, _)
SharesFrom(s, S) ==
    IF S = {} THEN 0
    ELSE LET j == CHOOSE x \in S : TRUE
         IN ScalarAdd(s.round1_p2p_data[j].secret_share.value, SharesFrom(s, S \ {j}))

\* the sum of the first Feldman commitments of the participants in S
RECURSIVE CommitmentsOf(_)
CommitmentsOf(S) ==
    IF S = {} THEN identity
    ELSE LET j == CHOOSE x \in S : TRUE
         IN PointAdd(ps[j].components.feldman_commitments[1], CommitmentsOf(S \ {j}))

\* C32: when round4 has completed, secret_share is the own share plus the
\* shares of exactly the peers left in valid_participant_ids, and public_key
\* is the sum of the first Feldman commitments of the same set (stated where
\* that set holds no corrupted participant); a peer removed during round 4
\* contributes to neither
C32_ShareAndKeyOverAcceptedPeers ==
    \A i \in DOMAIN ps :
        ps[i].round = 5 =>
            LET accepted == ps[i].valid_participant_ids \ {i}
            IN /\ accepted \subseteq DOMAIN ps[i].round1_p2p_data
               /\ ps[i].secret_share
                  = ScalarAdd(own_contribution(ps[i]), SharesFrom(ps[i], accepted))
               /\ accepted \subseteq DOMAIN ps =>
                      ps[i].public_key = CommitmentsOf(accepted \cup {i})

\* two calls of run(), whatever they return
RunTwice(s) == run(run(s).st).st

\* C33: the transcript does not depend on the order in which the payloads
\* of distinct peers arrive: for the payloads of a round that are absorbed
\* by a later run() (round 1 by round2, round 2 by round3), any two that are
\* accepted in one order are accepted in the other, and the runs that follow
\* give the same transcript
C33_TranscriptIgnoresArrivalOrder ==
    \A k \in {1, 2} :
        p.round <= k + 1 =>
            LET accepted == {d \in Payloads(k) : receive(p, k, d).res.ok}
            IN \A d1, d2 \in accepted :
                   LET a == receive(receive(p, k, d1).st, k, d2)
                       b == receive(receive(p, k, d2).st, k, d1)
                   IN (d1.sender_ordinal # d2.sender_ordinal /\ a.res.ok) =>
                          /\ b.res.ok
                          /\ RunTwice(a.st).transcript = RunTwice(b.st).transcript

\* the round 2 payloads of every peer were absorbed into the transcript
C33_Witness ==
    /\ last.op = "run" /\ last.res.ok /\ p.round = 4
    /\ Peers \subseteq DOMAIN p.received_round1_data
    /\ Peers \subseteq DOMAIN p.received_round2_data
    /\ p.transcript = FoldValues(p.received_round2_data, DOMAIN p.received_round2_data,
                                 FoldValues(p.received_round1_data,
                                            DOMAIN p.received_round1_data,
                                            initialize(Self).transcript))

\* C34: the Feldman commitments stored for a peer satisfy the type the peer
\* declared in round 1: the first commitment is not the identity for a
\* Secret sender and is the identity for a Refresh sender
C34_FirstCommitmentFitsDeclaredType ==
    \A o \in (DOMAIN p.received_round3_data) \ {p.ordinal} :
        /\ o \in DOMAIN p.received_round1_data
        /\ IF p.received_round1_data[o].sender_type = "Secret"
           THEN ~is_identity(p.received_round3_data[o].feldman_commitments[1])
           ELSE is_identity(p.received_round3_data[o].feldman_commitments[1])

\* the commitments of a Refresh sender were stored, first entry the identity
C34_Witness ==
    /\ last.op = "receive" /\ last.tag = 3 /\ last.res.ok
    /\ Bad \in DOMAIN p.received_round3_data
    /\ p.received_round1_data[Bad].sender_type = "Refresh"
    /\ is_identity(p.received_round3_data[Bad].feldman_commitments[1])

(***************************************************************************)
(* Construction and the first run()                                        *)
(***************************************************************************)
\* C35: construction with an id that the id generator of the parameters
\* does not produce (the ids are 1 .. limit) fails with "Id not found in
\* participant ids", unless an earlier test of the parameters already failed
\* (stated for thresholds from 2 on)
C35_UnknownIdRejected ==
    (/\ last.op = "new"
     /\ last.id \notin 1 .. last.parameters.limit
     /\ last.parameters.threshold >= 2
     /\ last.res \notin InvalidParameters)
        => last.res = InitializationError("Id not found in participant ids")

\* C36: the first run() of a freshly constructed participant, with no
\* receive() before it, succeeds and its output is the commitment broadcast
\* to every other participant
C36_FirstRunSucceeds ==
    last.op = "run" =>
        /\ last.res.ok
        /\ p.round = 2
        /\ last.out = (0 .. p.limit - 1) \ {p.ordinal}
        /\ p.ordinal \in DOMAIN p.received_round1_data

(***************************************************************************)
(* Honest participants of the run()/receive() interface on a network       *)
(***************************************************************************)
\* the payload of round k that the sender hands to dst: the entry it stored
\* for itself, with the shares of dst in round 2 (RoundOutputGenerator::iter)
NetPayload(k, st, dst) ==
    CASE k = 1 -> st.received_round1_data[st.ordinal]
      [] k = 2 -> [st.received_round2_data[st.ordinal] EXCEPT
                       !.secret_share = secret_shares(secret_polynomial(st.ordinal))[dst],
                       !.blind_share = secret_shares(blinder_polynomial(st.ordinal))[dst]]
      [] OTHER -> st.received_round3_data[st.ordinal]

\* every participant constructed, nothing sent; net holds the messages in
\* flight as <<sender, receiver, round>>
NetInit ==
    /\ p = initialize(Self)
    /\ last = [op |-> "new", tag |-> 0, res |-> NoError, out |-> {}, ended |-> {}]
    /\ ps = [o \in Ordinals |-> initialize(o)]
    /\ net = {}
    /\ olast = [op |-> "new", from |-> 0, to |-> 0, tag |-> 0, res |-> NoError]

\* a participant whose round is ready runs it and sends its output
NetRun ==
    \E o \in Ordinals :
        /\ ps[o].round <= 3
        /\ LET r == run(ps[o])
           IN  /\ r.res.ok
               /\ ps' = [ps EXCEPT ![o] = r.st]
               /\ net' = net \cup {<<o, dst, ps[o].round>> : dst \in r.out}
               /\ olast' = [op |-> "run", from |-> o, to |-> o, tag |-> ps[o].round,
                            res |-> r.res]
        /\ UNCHANGED <<p, last>>

\* a message in flight is delivered; the messages of one sender to one
\* receiver arrive in the order they were sent
NetDeliver ==
    \E m \in net :
        /\ \A k \in 1 .. m[3] - 1 : <<m[1], m[2], k>> \notin net
        /\ LET r == receive(ps[m[2]], m[3], NetPayload(m[3], ps[m[1]], m[2]))
           IN  /\ ps' = [ps EXCEPT ![m[2]] = r.st]
               /\ net' = net \ {m}
               /\ olast' = [op |-> "receive", from |-> m[1], to |-> m[2], tag |-> m[3],
                            res |-> r.res]
        /\ UNCHANGED <<p, last>>

NextNet == NetRun \/ NetDeliver

SpecNet == NetInit /\ [][NextNet]_vars

\* C37: with honest participants only and every message delivered, in the
\* order sent, no Round 3 echo is rejected by its receiver, whatever the
\* interleaving of the run() and receive() calls that the round gates allow
C37_HonestEchoAccepted ==
    (olast.op = "receive" /\ olast.tag = 3) => olast.res.ok

(***************************************************************************)
(* Calls that return an error                                              *)
(***************************************************************************)
\* C38: a receive() that returns an error changes nothing: the round, the
\* received maps, valid_participant_ids, the transcript and every other
\* field of the participant are as before the call, and there is no output
C38_FailedReceiveChangesNothing ==
    [][(last'.op = "receive" /\ ~last'.res.ok) => (p' = p /\ last'.out = {})]_vars

\* a round 2 payload whose share does not verify was refused by a
\* participant that holds payloads of rounds 1 and 2 and has run round 2
C38_Witness ==
    /\ last.op = "receive"
    /\ last.tag = 2
    /\ last.res = RoundError(2, "The share does not verify with the given commitments")
    /\ p.round = 3
    /\ 1 \in DOMAIN p.received_round2_data
    /\ Bad \in DOMAIN p.received_round1_data
    /\ Bad \notin DOMAIN p.received_round2_data

\* C39: a round step that returns an error leaves the participant as it
\* was, valid_participant_ids, secret_share and public_key included, so the
\* step can be called again
C39_FailedStepChangesNothing ==
    [][~olast'.res.ok => ps' = ps]_vars

(***************************************************************************)
(* Agreement on the valid participants                                     *)
(***************************************************************************)
\* C40: any two uncorrupted participants that have both reached round Five
\* hold the same valid_participant_ids
C40_SameValidIdsAtRoundFive ==
    \A i, j \in DOMAIN ps :
        (ps[i].round = 5 /\ ps[j].round = 5)
            => ps[i].valid_participant_ids = ps[j].valid_participant_ids
====
